---- MODULE Spec2Model ----
(***************************************************************************)
(* A model of the patharg crate (src/src/lib.rs): the InputArg and         *)
(* OutputArg sum types, their construction from a command-line token,      *)
(* their classification predicates and path accessors, their textual       *)
(* rendering, their conversion back to platform text and their serde       *)
(* representation.                                                         *)
(*                                                                         *)
(* Platform text (OsString, PathBuf) is a sequence of bytes; Rust text     *)
(* (String, &str) is a sequence of Unicode scalar values.  Both are        *)
(* sequences of one-unit strings here; a conversion between the two is     *)
(* computed by Encode / Decode / Lossy below (Unix conventions).           *)
(***************************************************************************)
EXTENDS Naturals, Sequences, FiniteSets

\* ------------------------------------------------------------------------
\* Bounds and alphabets
\* ------------------------------------------------------------------------

\* longest command-line token drawn as an input
MaxLen == 3

\* the bytes a token is made of: '-', '/', '.', and the two bytes of the
\* UTF-8 encoding of U+00E9 (each of which alone is not valid UTF-8)
Hyphen == "-"
Slash == "/"
Dot == "."
Units == {Hyphen, Slash, Dot, "C3", "A9"}

Tokens == UNION {[1..n -> Units] : n \in 0..MaxLen}

\* the literal "-"
Dash == <<Hyphen>>

\* ------------------------------------------------------------------------
\* Text conversions (std::str / std::ffi on Unix)
\* ------------------------------------------------------------------------

\* str::as_bytes of one scalar value: its UTF-8 encoding
EncodeChar(c) ==
    IF c = "U+00E9" THEN <<"C3", "A9">>
    ELSE IF c = "U+FFFD" THEN <<"EF", "BF", "BD">>
    ELSE <<c>>

\* OsString::from(String) / PathBuf::from(String): the UTF-8 bytes of s
RECURSIVE Encode(_)
Encode(s) ==
    IF s = <<>> THEN <<>> ELSE EncodeChar(Head(s)) \o Encode(Tail(s))

IsAscii(b) == b \notin {"C3", "A9", "EF", "BF", "BD"}

\* the length of the well-formed UTF-8 sequence that starts b, or 0
SeqLenAt(b) ==
    IF b = <<>> THEN 0
    ELSE IF IsAscii(b[1]) THEN 1
    ELSE IF Len(b) >= 2 /\ b[1] = "C3" /\ b[2] = "A9" THEN 2
    ELSE IF Len(b) >= 3 /\ b[1] = "EF" /\ b[2] = "BF" /\ b[3] = "BD" THEN 3
    ELSE 0

DecodeAt(b) ==
    IF SeqLenAt(b) = 1 THEN b[1]
    ELSE IF SeqLenAt(b) = 2 THEN "U+00E9"
    ELSE "U+FFFD"

Drop(b, n) == SubSeq(b, n + 1, Len(b))

\* Path::to_str(): is the byte sequence valid UTF-8
RECURSIVE IsUtf8(_)
IsUtf8(b) ==
    IF b = <<>> THEN TRUE
    ELSE SeqLenAt(b) > 0 /\ IsUtf8(Drop(b, SeqLenAt(b)))

\* String::from_utf8_lossy, as used by Path::display(): well-formed
\* sequences decode, every other byte becomes U+FFFD
RECURSIVE Lossy(_)
Lossy(b) ==
    IF b = <<>> THEN <<>>
    ELSE IF SeqLenAt(b) = 0 THEN <<"U+FFFD">> \o Lossy(Tail(b))
    ELSE <<DecodeAt(b)>> \o Lossy(Drop(b, SeqLenAt(b)))

\* Path::to_str() on a valid path: the text of the path
Decode(b) == Lossy(b)

\* ------------------------------------------------------------------------
\* std::path comparison (Unix): PathBuf == &Path compares components
\* ------------------------------------------------------------------------

\* the pieces of p between its separators, empty pieces included
RECURSIVE Segments(_)
Segments(p) ==
    IF p = <<>> THEN << <<>> >>
    ELSE LET rest == Segments(Tail(p)) IN
         IF Head(p) = Slash THEN << <<>> >> \o rest
         ELSE << <<Head(p)>> \o Head(rest) >> \o Tail(rest)

HasRoot(p) == p # <<>> /\ p[1] = Slash

Component(kind, name) == [kind |-> kind, name |-> name]

\* Path::components(): a leading '/' is RootDir, a leading "." is CurDir,
\* ".." is ParentDir, empty pieces and every other "." are skipped
RECURSIVE ComponentsFrom(_, _, _)
ComponentsFrom(segs, i, rooted) ==
    IF i > Len(segs) THEN <<>>
    ELSE LET seg == segs[i]
             rest == ComponentsFrom(segs, i + 1, rooted)
         IN  IF seg = <<>> THEN rest
             ELSE IF seg = <<Dot>>
                  THEN IF i = 1 /\ ~rooted
                       THEN <<Component("CurDir", <<>>)>> \o rest
                       ELSE rest
             ELSE IF seg = <<Dot, Dot>>
                  THEN <<Component("ParentDir", <<>>)>> \o rest
             ELSE <<Component("Normal", seg)>> \o rest

Components(p) ==
    (IF HasRoot(p) THEN <<Component("RootDir", <<>>)>> ELSE <<>>)
        \o ComponentsFrom(Segments(p), 1, HasRoot(p))

\* impl PartialEq<&Path> for PathBuf
PathEq(a, b) == Components(a) = Components(b)

\* ------------------------------------------------------------------------
\* Option and Result values
\* ------------------------------------------------------------------------

None == [some |-> FALSE, val |-> <<>>]
Some(v) == [some |-> TRUE, val |-> v]

Ok(v) == [ok |-> TRUE, val |-> v, err |-> ""]
Err(e) == [ok |-> FALSE, val |-> <<>>, err |-> e]

\* ------------------------------------------------------------------------
\* Carriers: the string types a token arrives in (S: Into<PathBuf>)
\* ------------------------------------------------------------------------

OsCarriers == {"OsString", "&OsStr", "PathBuf", "&Path"}
StrCarriers == {"String", "&str"}
Carriers == OsCarriers \cup StrCarriers

\* the carriers that can hold the token t: Rust text holds only valid UTF-8
CarriersOf(t) == IF IsUtf8(t) THEN Carriers ELSE OsCarriers

\* the value of type c that holds the token t
Carry(c, t) == IF c \in StrCarriers THEN Decode(t) ELSE t

\* arg.into(): PathBuf::from of the carrier's value
Into_PathBuf(c, v) == IF c \in StrCarriers THEN Encode(v) ELSE v

\* ------------------------------------------------------------------------
\* enum InputArg { Stdin, Path(PathBuf) }
\* ------------------------------------------------------------------------

Stdin == [tag |-> "Stdin", path |-> <<>>]
InputArg_Path(p) == [tag |-> "Path", path |-> p]

InputArg_default == Stdin

InputArg_from_arg(arg) ==
    IF PathEq(arg, Dash) THEN Stdin ELSE InputArg_Path(arg)

\* a faulty From: the token wrapped as a path without the "-" test
InputArg_from_wrap(s) == InputArg_Path(s)

\* impl From<S> for InputArg
InputArg_from(s) == InputArg_from_arg(s)

\* #[derive(PartialEq)]: same variant and, for Path, equal PathBufs
InputArg_eq(a, b) ==
    /\ a.tag = b.tag
    /\ a.tag = "Path" => PathEq(a.path, b.path)

\* a faulty is_stdin: decided by the text the value converts back to
InputArg_is_stdin_text(self) ==
    (IF self.tag = "Stdin" THEN Dash ELSE self.path) = Dash

InputArg_is_stdin(self) == InputArg_eq(self, Stdin)

InputArg_is_path(self) == self.tag = "Path"

InputArg_path_ref(self) ==
    IF self.tag = "Stdin" THEN None ELSE Some(self.path)

InputArg_path_mut(self) ==
    IF self.tag = "Stdin" THEN None ELSE Some(self.path)

\* a faulty into_path: the stream variant gives the path "-"
InputArg_into_path_dash(self) ==
    IF self.tag = "Stdin" THEN Some(Dash) ELSE Some(self.path)

InputArg_into_path(self) ==
    IF self.tag = "Stdin" THEN None ELSE Some(self.path)

\* the text "<stdin>"
StdinPlaceholder == <<"<", "s", "t", "d", "i", "n", ">">>

\* a faulty Display: the two modes exchanged
InputArg_fmt_flipped(self, alternate) ==
    IF self.tag = "Stdin"
    THEN IF alternate THEN Dash ELSE StdinPlaceholder
    ELSE Lossy(self.path)

\* impl fmt::Display for InputArg; alternate is f.alternate()
InputArg_fmt(self, alternate) ==
    IF self.tag = "Stdin"
    THEN IF alternate THEN StdinPlaceholder ELSE Dash
    ELSE Lossy(self.path)

\* a faulty conversion: through the displayed (lossy) text of the path
InputArg_into_OsString_lossy(arg) ==
    IF arg.tag = "Stdin" THEN Encode(Dash) ELSE Encode(Lossy(arg.path))

\* impl From<InputArg> for OsString
InputArg_into_OsString(arg) ==
    IF arg.tag = "Stdin" THEN Encode(Dash) ELSE arg.path

\* impl Serialize for PathBuf (serde): the path as a string, or an error
PathBuf_serialize(p) ==
    IF IsUtf8(p) THEN Ok(Decode(p))
    ELSE Err("path contains invalid UTF-8 characters")

\* a faulty Serialize: the displayed (lossy) text of the path, never an error
InputArg_serialize_lossy(self) ==
    IF self.tag = "Stdin" THEN Ok(Dash) ELSE Ok(Lossy(self.path))

\* impl Serialize for InputArg
InputArg_serialize(self) ==
    IF self.tag = "Stdin" THEN Ok(Dash) ELSE PathBuf_serialize(self.path)

\* impl Deserialize for PathBuf (serde): PathBuf::from of the string
PathBuf_deserialize(s) == Encode(s)

\* a faulty Deserialize: the string wrapped as a path without the "-" test
InputArg_deserialize_wrap(s) == InputArg_Path(PathBuf_deserialize(s))

\* impl Deserialize for InputArg
InputArg_deserialize(s) == InputArg_from_arg(PathBuf_deserialize(s))

\* ------------------------------------------------------------------------
\* enum OutputArg { Stdout, Path(PathBuf) }
\* ------------------------------------------------------------------------

Stdout == [tag |-> "Stdout", path |-> <<>>]
OutputArg_Path(p) == [tag |-> "Path", path |-> p]

OutputArg_default == Stdout

\* a faulty from_arg: the token wrapped as a path without the "-" test
OutputArg_from_arg_wrap(arg) == OutputArg_Path(arg)

OutputArg_from_arg(arg) ==
    IF PathEq(arg, Dash) THEN Stdout ELSE OutputArg_Path(arg)

\* impl From<S> for OutputArg
OutputArg_from(s) == OutputArg_from_arg(s)

\* #[derive(PartialEq)]
OutputArg_eq(a, b) ==
    /\ a.tag = b.tag
    /\ a.tag = "Path" => PathEq(a.path, b.path)

OutputArg_is_stdout(self) == OutputArg_eq(self, Stdout)

OutputArg_is_path(self) == self.tag = "Path"

OutputArg_path_ref(self) ==
    IF self.tag = "Stdout" THEN None ELSE Some(self.path)

OutputArg_path_mut(self) ==
    IF self.tag = "Stdout" THEN None ELSE Some(self.path)

OutputArg_into_path(self) ==
    IF self.tag = "Stdout" THEN None ELSE Some(self.path)

\* the text "<stdout>"
StdoutPlaceholder == <<"<", "s", "t", "d", "o", "u", "t", ">">>

\* a faulty Display: the alternate flag ignored
OutputArg_fmt_plain(self, alternate) ==
    IF self.tag = "Stdout" THEN Dash ELSE Lossy(self.path)

\* impl fmt::Display for OutputArg
OutputArg_fmt(self, alternate) ==
    IF self.tag = "Stdout"
    THEN IF alternate THEN StdoutPlaceholder ELSE Dash
    ELSE Lossy(self.path)

\* impl From<OutputArg> for OsString
OutputArg_into_OsString(arg) ==
    IF arg.tag = "Stdout" THEN Encode(Dash) ELSE arg.path

\* impl Serialize for OutputArg
OutputArg_serialize(self) ==
    IF self.tag = "Stdout" THEN Ok(Dash) ELSE PathBuf_serialize(self.path)

\* impl Deserialize for OutputArg
OutputArg_deserialize(s) == OutputArg_from_arg(PathBuf_deserialize(s))

\* ------------------------------------------------------------------------
\* The program: a command-line token, the argument value built from it
\* (an InputArg or an OutputArg), and the result of the last method called
\* on that value
\* ------------------------------------------------------------------------

VARIABLES
    arg,      \* the raw token (platform text) the program was given
    kind,     \* the type of value: "InputArg" or "OutputArg"
    value,    \* the program's InputArg or OutputArg
    how,      \* how value was obtained
    obs,      \* the last method call on value and what it returned
    twin      \* a clone taken of value, if any

vars == <<arg, kind, value, how, obs, twin>>

\* The process around the value: the file system, the two standard streams
\* with their locks, and the threads that call the I/O methods
VARIABLES
    files,       \* the file system: what each path names
    stdinBuf,    \* the bytes of standard input not yet consumed
    stdoutBuf,   \* the bytes emitted to standard output so far
    stdinLock,   \* the thread that owns the stdin Mutex, or 0
    stdoutLock,  \* the owner and depth of the reentrant stdout lock
    th           \* each thread: the method it is in and the objects it holds

ioVars == <<files, stdinBuf, stdoutBuf, stdinLock, stdoutLock, th>>

allVars == <<arg, kind, value, how, obs, twin, files, stdinBuf, stdoutBuf,
             stdinLock, stdoutLock, th>>

Threads == {1, 2}

\* the paths the process may name: its input file and its output file
InPath == <<"i">>
OutPath == <<"o">>
Paths == {InPath, OutPath}

Missing == [state |-> "missing", data |-> <<>>]
File(d) == [state |-> "file", data |-> d]
Denied(d) == [state |-> "denied", data |-> d]
\* a directory: it can be opened for reading, and every read of it fails
Dir == [state |-> "dir", data |-> <<>>]

NoReader ==
    [kind |-> "none", path |-> <<>>, pos |-> 0, lines |-> FALSE, buf |-> <<>>]
NoWriter == [kind |-> "none", path |-> <<>>, pos |-> 0]
Unlocked == [owner |-> 0, depth |-> 0]

\* a thread that is in no method and holds nothing
Idle(calls) ==
    [pc |-> "idle", op |-> "none", self |-> Stdin, data |-> <<>>,
     pos |-> 0, res |-> Ok(<<>>), rd |-> NoReader, wr |-> NoWriter,
     items |-> <<>>, calls |-> calls, src |-> <<>>, dst |-> Missing,
     out |-> <<>>, tool |-> "none", tpc |-> "none",
     infile |-> Stdin, outfile |-> Stdout,
     given |-> [stdin |-> <<>>, files |-> [p \in Paths |-> Missing]],
     tin |-> "absent", tout |-> "absent",
     gone |-> FALSE, acc |-> <<>>,
     kept |-> [out |-> <<>>, dst |-> Missing]]

\* no I/O has happened and none is under way
IoQuiet ==
    /\ files = [p \in Paths |-> Missing]
    /\ stdinBuf = <<>>
    /\ stdoutBuf = <<>>
    /\ stdinLock = 0
    /\ stdoutLock = Unlocked
    /\ th = [t \in Threads |-> Idle(0)]

NoObs == [op |-> "none", alt |-> FALSE, text |-> <<>>, res |-> <<>>]

Observe(op, alt, text, res) ==
    [op |-> op, alt |-> alt, text |-> text, res |-> res]

\* no clone was taken
NoTwin == [tag |-> "None", path |-> <<>>]

Init ==
    /\ arg \in Tokens
    /\ \/ kind = "InputArg" /\ value = InputArg_default
       \/ kind = "OutputArg" /\ value = OutputArg_default
    /\ how = "default"
    /\ obs = NoObs
    /\ twin = NoTwin
    /\ IoQuiet

\* ---- construction ------------------------------------------------------

\* a faulty construction: the file an OutputArg names is created
Build_precreate(k, v, h) ==
    /\ kind' = k
    /\ value' = v
    /\ how' = h
    /\ obs' = NoObs
    /\ files' = IF k = "OutputArg" /\ v.tag = "Path" /\ v.path \in DOMAIN files
                THEN [files EXCEPT ![v.path] = [state |-> "file", data |-> <<>>]]
                ELSE files
    /\ UNCHANGED <<arg, twin>>
    /\ UNCHANGED <<stdinBuf, stdoutBuf, stdinLock, stdoutLock, th>>

Build(k, v, h) ==
    /\ kind' = k
    /\ value' = v
    /\ how' = h
    /\ obs' = NoObs
    /\ UNCHANGED <<arg, twin>>
    /\ UNCHANGED ioVars

\* InputArg::default()
InputDefault == Build("InputArg", InputArg_default, "default")

\* InputArg::from_arg(arg), the token carried by a value of type c
InputFromArg ==
    \E c \in CarriersOf(arg) :
        Build("InputArg", InputArg_from_arg(Into_PathBuf(c, Carry(c, arg))),
              "from_arg")

\* InputArg::from(arg)
InputFrom ==
    \E c \in CarriersOf(arg) :
        Build("InputArg", InputArg_from(Into_PathBuf(c, Carry(c, arg))),
              "from")

\* InputArg::Path(PathBuf::from(arg)), the variant written out directly
InputDirect ==
    Build("InputArg", InputArg_Path(Into_PathBuf("OsString", arg)), "direct")

\* value.clone(), #[derive(Clone)]
InputClone ==
    /\ kind = "InputArg"
    /\ Build("InputArg", value, "clone")

\* the token read back as a serialized string
InputDeserialize ==
    /\ IsUtf8(arg)
    /\ Build("InputArg", InputArg_deserialize(Decode(arg)), "deserialize")

OutputDefault == Build("OutputArg", OutputArg_default, "default")

OutputFromArg ==
    \E c \in CarriersOf(arg) :
        Build("OutputArg",
              OutputArg_from_arg(Into_PathBuf(c, Carry(c, arg))), "from_arg")

OutputFrom ==
    \E c \in CarriersOf(arg) :
        Build("OutputArg", OutputArg_from(Into_PathBuf(c, Carry(c, arg))),
              "from")

OutputDirect ==
    Build("OutputArg", OutputArg_Path(Into_PathBuf("OsString", arg)),
          "direct")

OutputClone ==
    /\ kind = "OutputArg"
    /\ Build("OutputArg", value, "clone")

OutputDeserialize ==
    /\ IsUtf8(arg)
    /\ Build("OutputArg", OutputArg_deserialize(Decode(arg)), "deserialize")

\* ---- methods -----------------------------------------------------------

Call(k, o) ==
    /\ kind = k
    /\ obs' = o
    /\ UNCHANGED <<arg, kind, value, how, twin>>
    /\ UNCHANGED ioVars

\* is_stdin() and is_path() of the same value
InputClassify ==
    Call("InputArg", Observe("classify", FALSE, <<>>,
                             [is_std |-> InputArg_is_stdin(value),
                              is_path |-> InputArg_is_path(value)]))

InputPathRef ==
    Call("InputArg", Observe("path_ref", FALSE, <<>>,
                             InputArg_path_ref(value)))

InputPathMut ==
    Call("InputArg", Observe("path_mut", FALSE, <<>>,
                             InputArg_path_mut(value)))

\* into_path() and OsString::from() take the value; the program passes a
\* copy and keeps its own
InputIntoPath ==
    Call("InputArg", Observe("into_path", FALSE, <<>>,
                             InputArg_into_path(value)))

InputIntoOsString ==
    Call("InputArg", Observe("into_OsString", FALSE, <<>>,
                             InputArg_into_OsString(value)))

\* format!("{}", value) and format!("{:#}", value)
InputDisplay ==
    \E alternate \in BOOLEAN :
        Call("InputArg", Observe("fmt", alternate, <<>>,
                                 InputArg_fmt(value, alternate)))

InputSerialize ==
    Call("InputArg", Observe("serialize", FALSE, <<>>,
                             InputArg_serialize(value)))

\* InputArg::from_arg applied to the String just rendered
InputReparse ==
    /\ obs.op = "fmt"
    /\ Call("InputArg",
            Observe("reparse", obs.alt, obs.res,
                    InputArg_from_arg(Into_PathBuf("String", obs.res))))

OutputClassify ==
    Call("OutputArg", Observe("classify", FALSE, <<>>,
                              [is_std |-> OutputArg_is_stdout(value),
                               is_path |-> OutputArg_is_path(value)]))

OutputPathRef ==
    Call("OutputArg", Observe("path_ref", FALSE, <<>>,
                              OutputArg_path_ref(value)))

OutputPathMut ==
    Call("OutputArg", Observe("path_mut", FALSE, <<>>,
                              OutputArg_path_mut(value)))

OutputIntoPath ==
    Call("OutputArg", Observe("into_path", FALSE, <<>>,
                              OutputArg_into_path(value)))

OutputIntoOsString ==
    Call("OutputArg", Observe("into_OsString", FALSE, <<>>,
                              OutputArg_into_OsString(value)))

OutputDisplay ==
    \E alternate \in BOOLEAN :
        Call("OutputArg", Observe("fmt", alternate, <<>>,
                                  OutputArg_fmt(value, alternate)))

OutputSerialize ==
    Call("OutputArg", Observe("serialize", FALSE, <<>>,
                              OutputArg_serialize(value)))

OutputReparse ==
    /\ obs.op = "fmt"
    /\ Call("OutputArg",
            Observe("reparse", obs.alt, obs.res,
                    OutputArg_from_arg(Into_PathBuf("String", obs.res))))

Next ==
    \/ InputDefault \/ InputFromArg \/ InputFrom \/ InputDirect
    \/ InputClone \/ InputDeserialize
    \/ OutputDefault \/ OutputFromArg \/ OutputFrom \/ OutputDirect
    \/ OutputClone \/ OutputDeserialize
    \/ InputClassify \/ InputPathRef \/ InputPathMut \/ InputIntoPath
    \/ InputIntoOsString \/ InputDisplay \/ InputSerialize \/ InputReparse
    \/ OutputClassify \/ OutputPathRef \/ OutputPathMut \/ OutputIntoPath
    \/ OutputIntoOsString \/ OutputDisplay \/ OutputSerialize
    \/ OutputReparse

Spec == Init /\ [][Next]_vars

\* the stream variant of value's type
Std == IF kind = "InputArg" THEN Stdin ELSE Stdout

\* the Path variant of value's type
PathOf(p) == IF kind = "InputArg" THEN InputArg_Path(p) ELSE OutputArg_Path(p)

TypeOK ==
    /\ arg \in Tokens
    /\ kind \in {"InputArg", "OutputArg"}
    /\ value.tag \in {"Stdin", "Stdout", "Path"}

\* ------------------------------------------------------------------------
\* Properties
\* ------------------------------------------------------------------------

IsStd == value.tag \in {"Stdin", "Stdout"}
IsPath == value.tag = "Path"
Parsed == how \in {"from_arg", "from"}

\* C1: every token other than the one-unit text "-" is turned by from_arg
\* into the Path variant holding the token verbatim (the test against "-"
\* is an equality of the raw text).
C1_NonDashIsVerbatimPath ==
    (how = "from_arg" /\ arg # Dash) => value = PathOf(arg)

\* C2: from_arg and From applied to "-" give the stream variant, for every
\* carrier type and for both InputArg and OutputArg; two values parsed from
\* the same token, whatever their carriers and directions, are of the same
\* variant and hold the same path.
C2_DashIsStreamForAllCarriers ==
    [][Parsed' =>
         /\ arg' = Dash => value' = Std'
         /\ Parsed => /\ IsStd' <=> IsStd
                      /\ value'.path = value.path]_vars

C2_Witness ==
    /\ arg = Dash
    /\ how = "from"
    /\ kind = "OutputArg"
    /\ value = Stdout

\* C3: the default-mode rendering of from_arg(t) is exactly t (stated for
\* the tokens that are text, which a String can equal).
C3_RenderParseRoundTrip ==
    (how = "from_arg" /\ IsUtf8(arg) /\ obs.op = "fmt" /\ ~obs.alt)
        => Encode(obs.res) = arg

\* C4: the default value is the stream variant, its default-mode rendering
\* is exactly "-", and from_arg of that rendering equals the default value.
C4_DefaultSelfDescribing ==
    how = "default" =>
        /\ value = Std
        /\ (obs.op = "fmt" /\ ~obs.alt) => obs.res = Dash
        /\ (obs.op = "reparse" /\ ~obs.alt) =>
               /\ obs.text = Dash
               /\ obs.res = value

C4_Witness ==
    /\ how = "default"
    /\ kind = "InputArg"
    /\ obs.op = "reparse"
    /\ ~obs.alt
    /\ obs.res = Stdin

\* C5: from_arg is applicable to every token and returns a value of the
\* type, and exactly one of is_stdin()/is_stdout() and is_path() holds of
\* every value, however it was obtained.
C5_ClassificationTotalExclusive ==
    /\ ENABLED InputFromArg
    /\ ENABLED OutputFromArg
    /\ value \in {Std, PathOf(value.path)}
    /\ obs.op = "classify" => obs.res.is_std # obs.res.is_path

C5_Witness ==
    /\ how = "direct"
    /\ kind = "InputArg"
    /\ value = InputArg_Path(Dash)
    /\ obs.op = "classify"
    /\ obs.res.is_path
    /\ ~obs.res.is_std

\* C6: path_ref(), path_mut() and into_path() return None exactly on the
\* stream variant, and on a Path variant built by from_arg(t) they return
\* Some path equal to t.
C6_AccessorAbsenceLaw ==
    obs.op \in {"path_ref", "path_mut", "into_path"} =>
        /\ obs.res = None <=> IsStd
        /\ IsPath => obs.res = Some(value.path)
        /\ (how = "from_arg" /\ IsPath) => obs.res = Some(arg)

C6_Witness ==
    /\ how = "from_arg"
    /\ arg = <<Dot, Slash, Hyphen>>
    /\ obs.op = "into_path"
    /\ obs.res = Some(arg)

\* C7: OsString::from of the stream variant is "-", and of Path(p) is
\* exactly the bytes of p, also when they are not valid UTF-8.
C7_IntoOsStringLossless ==
    obs.op = "into_OsString" =>
        /\ IsStd => obs.res = Dash
        /\ IsPath => obs.res = value.path
        /\ (how \in {"from_arg", "direct"} /\ IsPath) => obs.res = arg

C7_Witness ==
    /\ how = "direct"
    /\ ~IsUtf8(arg)
    /\ obs.op = "into_OsString"
    /\ obs.res = arg

\* C8: in the alternate mode Stdin renders as "<stdin>" and Stdout as
\* "<stdout>"; a Path variant renders as the platform display of its path
\* in both modes; from_arg of an alternate rendering of the stream variant
\* is a Path variant.
C8_AlternateRendering ==
    /\ (obs.op = "fmt" /\ obs.alt /\ value = Stdin)
           => obs.res = StdinPlaceholder
    /\ (obs.op = "fmt" /\ obs.alt /\ value = Stdout)
           => obs.res = StdoutPlaceholder
    /\ (obs.op = "fmt" /\ IsPath) => obs.res = Lossy(value.path)
    /\ (obs.op = "reparse" /\ obs.alt /\ IsStd)
           => /\ obs.res.tag = "Path"
              /\ obs.res.path = Encode(obs.text)
              /\ obs.text \in {StdinPlaceholder, StdoutPlaceholder}

C8_Witness ==
    /\ value = Stdout
    /\ obs.op = "reparse"
    /\ obs.alt
    /\ obs.res = OutputArg_Path(StdoutPlaceholder)

\* C9: the stream variant serializes as the string "-" and a Path variant
\* with a text path as that text; a deserialized string gives the value
\* from_arg gives: "-" the stream variant, "./-" the Path holding "./-".
C9_SerdeFollowsParseRule ==
    /\ obs.op = "serialize" =>
           /\ IsStd => obs.res = Ok(Dash)
           /\ (IsPath /\ IsUtf8(value.path)) =>
                  /\ obs.res.ok
                  /\ Encode(obs.res.val) = value.path
    /\ how = "deserialize" =>
           /\ value = IF kind = "InputArg" THEN InputArg_from_arg(arg)
                      ELSE OutputArg_from_arg(arg)
           /\ arg = Dash => value = Std
           /\ arg = <<Dot, Slash, Hyphen>> => value = PathOf(arg)

C9_Witness ==
    /\ how = "deserialize"
    /\ kind = "InputArg"
    /\ arg = <<Dot, Slash, Hyphen>>
    /\ value = InputArg_Path(arg)
    /\ obs.op = "serialize"
    /\ obs.res = Ok(arg)

\* C10: serializing a Path variant whose path is not valid UTF-8 fails
\* with an error and yields no value; serializing the stream variant
\* succeeds.
C10_SerializeNonTextFails ==
    obs.op = "serialize" =>
        /\ (IsPath /\ ~IsUtf8(value.path)) =>
               /\ ~obs.res.ok
               /\ obs.res.val = <<>>
               /\ obs.res.err # ""
        /\ IsStd => obs.res.ok

C10_Witness ==
    /\ how = "from_arg"
    /\ kind = "InputArg"
    /\ IsPath
    /\ ~IsUtf8(value.path)
    /\ obs.op = "serialize"
    /\ ~obs.res.ok

\* ------------------------------------------------------------------------
\* Synchronous I/O (impl InputArg: open, read, read_to_string, lines;
\* impl OutputArg: create, write)
\* ------------------------------------------------------------------------

\* longest content of standard input, of a file, and of a written buffer
MaxData == 2

LF == "LF"
CR == "CR"

\* the bytes of a content: a letter, a newline, and a byte that is not
\* valid UTF-8 on its own
DataUnits == {"a", LF, "C3"}

Contents == UNION {[1..n -> DataUnits] : n \in 0..MaxData}

\* what the output file holds before the process runs: longer than
\* anything the process writes
Old == [i \in 1..(MaxData + 1) |-> "z"]

RECURSIVE Reverse(_)
Reverse(b) == IF b = <<>> THEN <<>> ELSE Reverse(Tail(b)) \o <<Head(b)>>

\* the position after the first newline of b, or Len(b) if it has none
RECURSIVE LineEnd(_, _)
LineEnd(b, i) ==
    IF i > Len(b) THEN Len(b)
    ELSE IF b[i] = LF THEN i
    ELSE LineEnd(b, i + 1)

\* a faulty iterator: the line is given with its terminator
LineItem_keep(b) ==
    LET raw == SubSeq(b, 1, LineEnd(b, 1))
    IN  IF IsUtf8(raw)
        THEN [kind |-> "line", text |-> Decode(raw)]
        ELSE [kind |-> "err", text |-> <<>>]

\* std::io::Lines::next on the unread bytes b (b is not empty): the line
\* up to the newline, without its "\n" or "\r\n"; an error if its bytes
\* are not valid UTF-8
LineItem(b) ==
    LET raw == SubSeq(b, 1, LineEnd(b, 1))
        n == Len(raw)
        cut == IF n >= 1 /\ raw[n] = LF
               THEN IF n >= 2 /\ raw[n - 1] = CR THEN n - 2 ELSE n - 1
               ELSE n
    IN  IF IsUtf8(raw)
        THEN [kind |-> "line", text |-> Decode(SubSeq(raw, 1, cut))]
        ELSE [kind |-> "err", text |-> <<>>]

EndItem == [kind |-> "end", text |-> <<>>]

\* a faulty open: a missing file is created instead of reported
File_open_or_new(fsys, p) ==
    IF fsys[p].state = "denied" THEN Err("PermissionDenied") ELSE Ok(<<>>)

\* std::fs::File::open on the file system fsys
File_open(fsys, p) ==
    IF fsys[p].state = "missing" THEN Err("NotFound")
    ELSE IF fsys[p].state = "denied" THEN Err("PermissionDenied")
    ELSE Ok(<<>>)

\* a faulty create: the file opened for writing without truncation
File_create_keep(fsys, p) ==
    IF fsys[p].state \in {"denied", "dir"} THEN fsys
    ELSE IF fsys[p].state = "missing" THEN [fsys EXCEPT ![p] = File(<<>>)]
    ELSE fsys

\* std::fs::File::create: the file system after the call (the file is
\* created, or truncated if it exists)
File_create(fsys, p) ==
    IF fsys[p].state \in {"denied", "dir"} THEN fsys
    ELSE [fsys EXCEPT ![p] = File(<<>>)]

File_create_result(fsys, p) ==
    IF fsys[p].state = "denied" THEN Err("PermissionDenied")
    ELSE IF fsys[p].state = "dir" THEN Err("IsADirectory")
    ELSE Ok(<<>>)

\* a faulty write: the chunk is put in front of what the file holds
WriteAt_front(d, pos, chunk) == chunk \o d

\* the bytes d with chunk written at offset pos; an offset past the end
\* of d leaves a hole of zero bytes
WriteAt(d, pos, chunk) ==
    IF pos <= Len(d)
    THEN SubSeq(d, 1, pos) \o chunk \o Drop(d, pos + Len(chunk))
    ELSE d \o [i \in 1..(pos - Len(d)) |-> "NUL"] \o chunk

\* the content a reading method of self starts from
SourceOf(self) ==
    IF self.tag = "Path" THEN files[self.path].data ELSE stdinBuf

\* the thread t becomes r
Upd(t, r) ==
    /\ th' = [th EXCEPT ![t] = r]
    /\ UNCHANGED vars

\* the method returns res to its caller
Ret(r, res) == [r EXCEPT !.pc = "ret", !.res = res]

\* ---- the standard-stream locks -----------------------------------------

\* io::stdin().lock(): blocks until the Mutex is free
Stdin_lock(t) ==
    /\ stdinLock = 0
    /\ stdinLock' = t

\* a faulty release: the lock stays with its owner
Stdin_unlock_never(t) == UNCHANGED stdinLock

\* drop(StdinLock)
Stdin_unlock(t) == stdinLock' = 0

\* a faulty lock: taken without waiting for the owner
Stdout_lock_nowait(t) ==
    stdoutLock' = [owner |-> t, depth |-> stdoutLock.depth + 1]

\* io::stdout().lock(): blocks until the reentrant lock is free or is
\* already owned by this thread
Stdout_lock(t) ==
    /\ stdoutLock.owner \in {0, t}
    /\ stdoutLock' = [owner |-> t, depth |-> stdoutLock.depth + 1]

\* drop(StdoutLock)
Stdout_unlock(t) ==
    stdoutLock' =
        IF stdoutLock.depth = 1 THEN Unlocked
        ELSE [stdoutLock EXCEPT !.depth = stdoutLock.depth - 1]

\* ---- impl InputArg: synchronous methods -------------------------------

Me(t) == th[t]

InMethod(t, op, pc) ==
    /\ Me(t).op = op
    /\ Me(t).pc = pc

\* the body of open(): Stdin locks standard input and returns the guard;
\* Path(p) opens the file and returns a buffered reader, or the error of
\* File::open.  asLines: the reader is wrapped by BufRead::lines()
InputArg_open_body(t, op, asLines) ==
    /\ InMethod(t, op, "call")
    /\ \/ /\ Me(t).self.tag = "Stdin"
          /\ Stdin_lock(t)
          /\ Upd(t, Ret([Me(t) EXCEPT
                 !.rd = [kind |-> "stdin", path |-> <<>>, pos |-> 0,
                         lines |-> asLines, buf |-> <<>>]], Ok(<<>>)))
          /\ UNCHANGED <<files, stdinBuf, stdoutBuf, stdoutLock>>
       \/ /\ Me(t).self.tag = "Path"
          /\ LET r == File_open(files, Me(t).self.path) IN
             Upd(t, IF r.ok
                    THEN Ret([Me(t) EXCEPT
                             !.rd = [kind |-> "file",
                                     path |-> Me(t).self.path, pos |-> 0,
                                     lines |-> asLines, buf |-> <<>>]], r)
                    ELSE Ret(Me(t), r))
          /\ UNCHANGED <<files, stdinBuf, stdoutBuf, stdinLock, stdoutLock>>

\* a faulty open: the file is opened as for writing
InputArg_open_touch(t) ==
    /\ InMethod(t, "open", "call")
    /\ Me(t).self.tag = "Path"
    /\ files' = File_create(files, Me(t).self.path)
    /\ Upd(t, Ret(Me(t), Err("Other")))
    /\ UNCHANGED <<stdinBuf, stdoutBuf, stdinLock, stdoutLock>>

\* pub fn open(&self) -> io::Result<InputArgReader>
InputArg_open(t) == InputArg_open_body(t, "open", FALSE)

\* pub fn lines(&self) -> io::Result<Lines>: Ok(self.open()?.lines())
InputArg_lines(t) == InputArg_open_body(t, "lines", TRUE)

\* a faulty read: a final newline is dropped
AsBytes_trimmed(b) ==
    Ok(IF b # <<>> /\ b[Len(b)] = LF THEN SubSeq(b, 1, Len(b) - 1) ELSE b)

\* what read() makes of the bytes b it has read to the end
AsBytes(b) == Ok(b)

\* a faulty read_to_string: invalid bytes are replaced, never refused
AsString_lossy(b) == Ok(Lossy(b))

\* what read_to_string() makes of the bytes b: the text, or an error and
\* no text when b is not valid UTF-8
AsString(b) == IF IsUtf8(b) THEN Ok(Decode(b)) ELSE Err("InvalidData")

\* the body of read() and read_to_string(): Stdin locks standard input,
\* reads it to the end and drops the guard on return; Path(p) is
\* fs::read(p) / fs::read_to_string(p): File::open, then read to the end
ReadAll(t, op) ==
    \/ /\ InMethod(t, op, "call")
       /\ Me(t).self.tag = "Stdin"
       /\ Stdin_lock(t)
       /\ Upd(t, [Me(t) EXCEPT !.pc = "locked"])
       /\ UNCHANGED <<files, stdinBuf, stdoutBuf, stdoutLock>>
    \/ /\ InMethod(t, op, "locked")
       /\ Me(t).self.tag = "Stdin"
       /\ Stdin_unlock(t)
       /\ \/ /\ stdinBuf' = <<>>
             /\ Upd(t, Ret(Me(t), IF op = "read" THEN AsBytes(stdinBuf)
                                  ELSE AsString(stdinBuf)))
          \/ \E k \in 0..Len(stdinBuf) :
                /\ stdinBuf' = Drop(stdinBuf, k)
                /\ Upd(t, Ret(Me(t), Err("Other")))
       /\ UNCHANGED <<files, stdoutBuf, stdoutLock>>
    \/ /\ InMethod(t, op, "call")
       /\ Me(t).self.tag = "Path"
       /\ LET r == File_open(files, Me(t).self.path) IN
          Upd(t, IF r.ok THEN [Me(t) EXCEPT !.pc = "opened"]
                 ELSE Ret(Me(t), r))
       /\ UNCHANGED <<files, stdinBuf, stdoutBuf, stdinLock, stdoutLock>>
    \/ /\ InMethod(t, op, "opened")
       /\ Me(t).self.tag = "Path"
       /\ \/ /\ files[Me(t).self.path].state # "dir"
             /\ Upd(t, Ret(Me(t),
                           IF op = "read"
                           THEN AsBytes(files[Me(t).self.path].data)
                           ELSE AsString(files[Me(t).self.path].data)))
          \/ Upd(t, Ret(Me(t), Err("Other")))
       /\ UNCHANGED <<files, stdinBuf, stdoutBuf, stdinLock, stdoutLock>>

\* pub fn read(&self) -> io::Result<Vec<u8>>
InputArg_read(t) == ReadAll(t, "read")

\* pub fn read_to_string(&self) -> io::Result<String>
InputArg_read_to_string(t) == ReadAll(t, "read_to_string")

\* the bytes the reader rd has not read yet
Unread(rd) ==
    IF rd.kind = "stdin" THEN stdinBuf
    ELSE Drop(files[rd.path].data, rd.pos)

\* every read through the reader rd fails: it reads a directory
ReadFails(rd) ==
    /\ rd.kind = "file"
    /\ files[rd.path].state = "dir"

\* a faulty iterator: a read that fails is taken for the end
ErrItem_end == [kind |-> "end", text |-> <<>>]

\* the item of a line that could not be read
ErrItem == [kind |-> "err", text |-> <<>>]

\* the items of an iteration the model follows when every read fails
MaxItems == 3

\* Lines::next(): the next line of the source, or the end; a read that
\* fails gives Some(Err(e)), and does so again at each call
Lines_next(t) ==
    /\ Me(t).pc = "idle"
    /\ Me(t).tool # "none" => Len(Me(t).items) = Me(t).pos
    /\ Me(t).rd.kind \in {"stdin", "file"}
    /\ Me(t).rd.lines
    /\ IF Me(t).items = <<>> THEN TRUE
       ELSE Me(t).items[Len(Me(t).items)] # EndItem
    /\ LET b == Unread(Me(t).rd)
           n == LineEnd(b, 1)
       IN  IF ReadFails(Me(t).rd)
           THEN /\ Len(Me(t).items) < MaxItems
                /\ Upd(t, [Me(t) EXCEPT !.items = Append(@, ErrItem)])
                /\ UNCHANGED stdinBuf
           ELSE IF b = <<>>
           THEN /\ Upd(t, [Me(t) EXCEPT !.items = Append(@, EndItem)])
                /\ UNCHANGED stdinBuf
           ELSE /\ Upd(t, [Me(t) EXCEPT !.items = Append(@, LineItem(b)),
                                        !.rd.pos = @ + n])
                /\ stdinBuf' = IF Me(t).rd.kind = "stdin"
                               THEN Drop(stdinBuf, n) ELSE stdinBuf
    /\ UNCHANGED <<files, stdoutBuf, stdinLock, stdoutLock>>

\* a faulty drop of the reader: the stdin guard is leaked
Reader_drop_leak(t) ==
    /\ Me(t).tool = "none"
    /\ Me(t).pc = "idle"
    /\ Me(t).rd.kind # "none"
    /\ Upd(t, [Me(t) EXCEPT !.rd = NoReader])
    /\ UNCHANGED <<files, stdinBuf, stdoutBuf, stdinLock, stdoutLock>>

\* drop of the reader or line iterator returned by open() / lines(): the
\* StdinLock it holds is released, the file it holds is closed
Reader_drop(t) ==
    /\ Me(t).tool = "none"
    /\ Me(t).pc = "idle"
    /\ Me(t).rd.kind # "none"
    /\ Upd(t, [Me(t) EXCEPT !.rd = NoReader])
    /\ IF Me(t).rd.kind = "stdin" THEN Stdin_unlock(t)
       ELSE UNCHANGED stdinLock
    /\ UNCHANGED <<files, stdinBuf, stdoutBuf, stdoutLock>>

\* ---- impl OutputArg: synchronous methods ------------------------------

\* a faulty create: Stdout gives a writer on standard output that holds
\* no lock
OutputArg_create_unlocked(t) ==
    /\ InMethod(t, "create", "call")
    /\ Upd(t, Ret([Me(t) EXCEPT
           !.wr = [kind |-> "stdout", path |-> <<>>, pos |-> 0]], Ok(<<>>)))
    /\ UNCHANGED <<files, stdinBuf, stdoutBuf, stdinLock, stdoutLock>>

\* pub fn create(&self) -> io::Result<OutputArgWriter>: Stdout locks
\* standard output and returns the guard; Path(p) is File::create(p)
OutputArg_create(t) ==
    /\ InMethod(t, "create", "call")
    /\ \/ /\ Me(t).self.tag = "Stdout"
          /\ Stdout_lock(t)
          /\ Upd(t, Ret([Me(t) EXCEPT
                 !.wr = [kind |-> "stdout", path |-> <<>>, pos |-> 0]],
                 Ok(<<>>)))
          /\ UNCHANGED <<files, stdinBuf, stdoutBuf, stdinLock>>
       \/ /\ Me(t).self.tag = "Path"
          /\ LET p == Me(t).self.path
                 r == File_create_result(files, p)
             IN  /\ files' = File_create(files, p)
                 /\ Upd(t, IF r.ok
                           THEN Ret([Me(t) EXCEPT
                                    !.wr = [kind |-> "file", path |-> p,
                                            pos |-> 0]], r)
                           ELSE Ret(Me(t), r))
          /\ UNCHANGED <<stdinBuf, stdoutBuf, stdinLock, stdoutLock>>

\* pub fn write(&self, contents) -> io::Result<()>: Stdout is
\* io::stdout().lock().write_all(contents), the guard dropped on return;
\* Path(p) is fs::write(p, contents): File::create(p)?.write_all(contents).
\* write_all loops over write(), which takes a chunk at a time and may fail
OutputArg_write(t) ==
    \/ /\ InMethod(t, "write", "call")
       /\ Me(t).self.tag = "Stdout"
       /\ Stdout_lock(t)
       /\ Upd(t, [Me(t) EXCEPT !.pc = "locked", !.pos = 0])
       /\ UNCHANGED <<files, stdinBuf, stdoutBuf, stdinLock>>
    \/ /\ InMethod(t, "write", "locked")
       /\ Me(t).self.tag = "Stdout"
       /\ Me(t).pos < Len(Me(t).data)
       /\ \E k \in 1..(Len(Me(t).data) - Me(t).pos) :
             /\ stdoutBuf' = stdoutBuf
                    \o SubSeq(Me(t).data, Me(t).pos + 1, Me(t).pos + k)
             /\ Upd(t, [Me(t) EXCEPT !.pos = @ + k])
       /\ UNCHANGED <<files, stdinBuf, stdinLock, stdoutLock>>
    \/ /\ InMethod(t, "write", "locked")
       /\ Me(t).self.tag = "Stdout"
       /\ Stdout_unlock(t)
       /\ Upd(t, Ret(Me(t), IF Me(t).pos = Len(Me(t).data) THEN Ok(<<>>)
                            ELSE Err("Other")))
       /\ UNCHANGED <<files, stdinBuf, stdoutBuf, stdinLock>>
    \/ /\ InMethod(t, "write", "call")
       /\ Me(t).self.tag = "Path"
       /\ LET p == Me(t).self.path
              r == File_create_result(files, p)
          IN  /\ files' = File_create(files, p)
              /\ Upd(t, IF r.ok
                        THEN [Me(t) EXCEPT !.pc = "opened", !.pos = 0]
                        ELSE Ret(Me(t), r))
       /\ UNCHANGED <<stdinBuf, stdoutBuf, stdinLock, stdoutLock>>
    \/ /\ InMethod(t, "write", "opened")
       /\ Me(t).self.tag = "Path"
       /\ Me(t).pos < Len(Me(t).data)
       /\ \E k \in 1..(Len(Me(t).data) - Me(t).pos) :
             /\ files' = [files EXCEPT ![Me(t).self.path].data =
                    WriteAt(@, Me(t).pos,
                            SubSeq(Me(t).data, Me(t).pos + 1,
                                   Me(t).pos + k))]
             /\ Upd(t, [Me(t) EXCEPT !.pos = @ + k])
       /\ UNCHANGED <<stdinBuf, stdoutBuf, stdinLock, stdoutLock>>
    \/ /\ InMethod(t, "write", "opened")
       /\ Me(t).self.tag = "Path"
       /\ Upd(t, Ret(Me(t), IF Me(t).pos = Len(Me(t).data) THEN Ok(<<>>)
                            ELSE Err("Other")))
       /\ UNCHANGED <<files, stdinBuf, stdoutBuf, stdinLock, stdoutLock>>

\* ---- the asynchronous methods (feature "tokio") -------------------------

\* the asynchronous counterparts of open, read, read_to_string, lines
AsyncInputOps ==
    {"async_open", "async_read", "async_read_to_string", "async_lines"}

\* a faulty end: what the operation opened stays open with nobody to
\* close it
Deliver_keep(r, res) ==
    IF r.gone THEN [r EXCEPT !.pc = "cancelled"] ELSE Ret(r, res)

\* a blocking operation handed to the runtime ends: its result reaches
\* the task that awaits it, or nobody if that task is gone, and then what
\* the operation opened is closed
Deliver(r, res) ==
    IF r.gone
    THEN [r EXCEPT !.pc = "cancelled", !.rd = NoReader, !.wr = NoWriter]
    ELSE Ret(r, res)

\* the body of async_open(): Stdin gives tokio::io::stdin(), a handle that
\* holds no lock; Path(p) awaits tokio::fs::File::open(p), which runs
\* File::open on a blocking thread
InputArg_async_open_body(t, op, asLines) ==
    \/ /\ InMethod(t, op, "call")
       /\ Me(t).self.tag = "Stdin"
       /\ Upd(t, Ret([Me(t) EXCEPT
              !.rd = [kind |-> "astdin", path |-> <<>>, pos |-> 0,
                      lines |-> asLines, buf |-> <<>>]], Ok(<<>>)))
       /\ UNCHANGED <<files, stdinBuf, stdoutBuf, stdinLock, stdoutLock>>
    \/ /\ InMethod(t, op, "call")
       /\ Me(t).self.tag = "Path"
       /\ Upd(t, [Me(t) EXCEPT !.pc = "busy"])
       /\ UNCHANGED <<files, stdinBuf, stdoutBuf, stdinLock, stdoutLock>>
    \/ /\ InMethod(t, op, "busy")
       /\ LET r == File_open(files, Me(t).self.path) IN
          Upd(t, Deliver(IF r.ok
                         THEN [Me(t) EXCEPT
                                  !.rd = [kind |-> "file",
                                          path |-> Me(t).self.path,
                                          pos |-> 0, lines |-> asLines,
                                          buf |-> <<>>]]
                         ELSE Me(t), r))
       /\ UNCHANGED <<files, stdinBuf, stdoutBuf, stdinLock, stdoutLock>>

\* pub async fn async_open(&self) -> io::Result<AsyncInputArgReader>
InputArg_async_open(t) == InputArg_async_open_body(t, "async_open", FALSE)

\* pub async fn async_lines(&self) -> io::Result<AsyncLines>:
\* LinesStream::new(BufReader::new(self.async_open().await?).lines())
InputArg_async_lines(t) == InputArg_async_open_body(t, "async_lines", TRUE)

\* a faulty read: the bytes are given as they are, text or not
AsyncResult_unchecked(op, b) == AsBytes(b)

\* what the bytes b read to the end become: the Vec<u8> of async_read(),
\* the String of async_read_to_string() or its error for invalid UTF-8
AsyncResult(op, b) == IF op = "async_read" THEN AsBytes(b) ELSE AsString(b)

\* the body of async_read() and async_read_to_string(): Stdin reads
\* tokio::io::stdin() to the end, each read a blocking read of
\* std::io::stdin() on another thread, which holds the lock of standard
\* input while it runs; Path(p) awaits tokio::fs::read(p) /
\* tokio::fs::read_to_string(p), one blocking call
AsyncReadAll(t, op) ==
    \/ /\ InMethod(t, op, "call")
       /\ Upd(t, [Me(t) EXCEPT
              !.pc = IF Me(t).self.tag = "Stdin" THEN "reading" ELSE "busy",
              !.acc = <<>>])
       /\ UNCHANGED <<files, stdinBuf, stdoutBuf, stdinLock, stdoutLock>>
    \/ /\ InMethod(t, op, "reading")
       /\ Stdin_lock(t)
       /\ Upd(t, [Me(t) EXCEPT !.pc = "busy"])
       /\ UNCHANGED <<files, stdinBuf, stdoutBuf, stdoutLock>>
    \/ /\ InMethod(t, op, "busy")
       /\ Me(t).self.tag = "Stdin"
       /\ Stdin_unlock(t)
       /\ \/ /\ stdinBuf = <<>>
             /\ UNCHANGED stdinBuf
             /\ Upd(t, Deliver(Me(t), AsyncResult(op, Me(t).acc)))
          \/ \E k \in 1..Len(stdinBuf) :
                /\ stdinBuf' = Drop(stdinBuf, k)
                /\ Upd(t, IF Me(t).gone THEN Deliver(Me(t), Ok(<<>>))
                          ELSE [Me(t) EXCEPT
                                   !.pc = "reading",
                                   !.acc = @ \o SubSeq(stdinBuf, 1, k)])
          \/ /\ UNCHANGED stdinBuf
             /\ Upd(t, Deliver(Me(t), Err("Other")))
       /\ UNCHANGED <<files, stdoutBuf, stdoutLock>>
    \/ /\ InMethod(t, op, "busy")
       /\ Me(t).self.tag = "Path"
       /\ LET r == File_open(files, Me(t).self.path) IN
          \/ /\ files[Me(t).self.path].state # "dir"
             /\ Upd(t, Deliver(Me(t),
                    IF ~r.ok THEN r
                    ELSE AsyncResult(op, files[Me(t).self.path].data)))
          \/ /\ r.ok
             /\ Upd(t, Deliver(Me(t), Err("Other")))
       /\ UNCHANGED <<files, stdinBuf, stdoutBuf, stdinLock, stdoutLock>>

\* pub async fn async_read(&self) -> io::Result<Vec<u8>>
InputArg_async_read(t) == AsyncReadAll(t, "async_read")

\* pub async fn async_read_to_string(&self) -> io::Result<String>
InputArg_async_read_to_string(t) == AsyncReadAll(t, "async_read_to_string")

HasLF(b) == \E i \in 1..Len(b) : b[i] = LF

\* StreamExt::next() on the stream returned by async_lines() for Stdin:
\* a line is taken from the stream's own buffer; when the buffer holds no
\* whole line it is filled by a blocking read of standard input on
\* another thread, which holds the lock while it runs
AsyncLines_next(t) ==
    /\ Me(t).rd.kind = "astdin"
    /\ Me(t).rd.lines
    /\ \/ /\ Me(t).pc = "idle"
          /\ Me(t).tool # "none" => Len(Me(t).items) = Me(t).pos
          /\ IF Me(t).items = <<>> THEN TRUE
             ELSE Me(t).items[Len(Me(t).items)] # EndItem
          /\ IF HasLF(Me(t).rd.buf)
             THEN /\ Upd(t, [Me(t) EXCEPT
                         !.items = Append(@, LineItem(Me(t).rd.buf)),
                         !.rd.buf = Drop(@, LineEnd(@, 1))])
                  /\ UNCHANGED stdinLock
             ELSE /\ Stdin_lock(t)
                  /\ Upd(t, [Me(t) EXCEPT !.pc = "filling"])
          /\ UNCHANGED stdinBuf
       \/ /\ Me(t).pc = "filling"
          /\ Stdin_unlock(t)
          /\ IF stdinBuf = <<>>
             THEN /\ Upd(t, IF Me(t).gone THEN Deliver(Me(t), Me(t).res)
                            ELSE [Me(t) EXCEPT
                                     !.pc = "idle",
                                     !.items =
                                         Append(@, IF Me(t).rd.buf = <<>>
                                                   THEN EndItem
                                                   ELSE LineItem(Me(t).rd.buf)),
                                     !.rd.buf = <<>>])
                  /\ UNCHANGED stdinBuf
             ELSE \E k \in 1..Len(stdinBuf) :
                     /\ stdinBuf' = Drop(stdinBuf, k)
                     /\ Upd(t, IF Me(t).gone THEN Deliver(Me(t), Me(t).res)
                               ELSE [Me(t) EXCEPT
                                        !.pc = "idle",
                                        !.rd.buf =
                                            @ \o SubSeq(stdinBuf, 1, k)])
    /\ UNCHANGED <<files, stdoutBuf, stdoutLock>>

\* pub async fn async_create(&self) -> io::Result<AsyncOutputArgWriter>:
\* Stdout gives tokio::io::stdout(), a handle that holds no lock; Path(p)
\* awaits tokio::fs::File::create(p), File::create on a blocking thread
OutputArg_async_create(t) ==
    \/ /\ InMethod(t, "async_create", "call")
       /\ Me(t).self.tag = "Stdout"
       /\ Upd(t, Ret([Me(t) EXCEPT
              !.wr = [kind |-> "astdout", path |-> <<>>, pos |-> 0]],
              Ok(<<>>)))
       /\ UNCHANGED <<files, stdinBuf, stdoutBuf, stdinLock, stdoutLock>>
    \/ /\ InMethod(t, "async_create", "call")
       /\ Me(t).self.tag = "Path"
       /\ Upd(t, [Me(t) EXCEPT !.pc = "busy"])
       /\ UNCHANGED <<files, stdinBuf, stdoutBuf, stdinLock, stdoutLock>>
    \/ /\ InMethod(t, "async_create", "busy")
       /\ LET p == Me(t).self.path
              r == File_create_result(files, p)
          IN  /\ files' = File_create(files, p)
              /\ Upd(t, Deliver(IF r.ok
                                THEN [Me(t) EXCEPT
                                         !.wr = [kind |-> "file", path |-> p,
                                                 pos |-> 0]]
                                ELSE Me(t), r))
       /\ UNCHANGED <<stdinBuf, stdoutBuf, stdinLock, stdoutLock>>

\* the task that awaits an asynchronous method is dropped: a blocking
\* operation that is under way cannot be stopped and runs to its end
\* without the task; otherwise the method ends here
Cancel(t) ==
    /\ Me(t).op \in AsyncInputOps \cup {"async_create", "async_write"}
    /\ ~Me(t).gone
    /\ Me(t).pc \in {"call", "reading", "writing", "busy", "opened",
                     "filling"}
    /\ Upd(t, [Me(t) EXCEPT
           !.gone = TRUE,
           !.pc = IF @ \in {"busy", "opened", "filling"} THEN @
                  ELSE "cancelled",
           !.rd = IF Me(t).pc = "filling" THEN @ ELSE NoReader,
           !.kept = [out |-> stdoutBuf,
                     dst |-> IF Me(t).self.tag = "Path"
                             THEN files[Me(t).self.path] ELSE Missing]])
    /\ UNCHANGED <<files, stdinBuf, stdoutBuf, stdinLock, stdoutLock>>

\* pub async fn async_write(&self, contents) -> io::Result<()>: Stdout is
\* write_all and flush on tokio::io::stdout(), which takes no lock for the
\* call; Path(p) is tokio::fs::write(p, contents), which runs
\* std::fs::write on a blocking thread
OutputArg_async_write(t) ==
    \/ /\ InMethod(t, "async_write", "call")
       /\ Me(t).self.tag = "Stdout"
       /\ Upd(t, [Me(t) EXCEPT !.pc = "writing", !.pos = 0])
       /\ UNCHANGED <<files, stdinBuf, stdoutBuf, stdinLock, stdoutLock>>
    \/ /\ InMethod(t, "async_write", "writing")
       /\ Me(t).pos < Len(Me(t).data)
       /\ stdoutLock.owner = 0
       /\ \E k \in 1..(Len(Me(t).data) - Me(t).pos) :
             /\ stdoutBuf' = stdoutBuf
                    \o SubSeq(Me(t).data, Me(t).pos + 1, Me(t).pos + k)
             /\ Upd(t, [Me(t) EXCEPT !.pos = @ + k])
       /\ UNCHANGED <<files, stdinBuf, stdinLock, stdoutLock>>
    \/ /\ InMethod(t, "async_write", "writing")
       /\ \/ /\ Me(t).pos = Len(Me(t).data)
             /\ Upd(t, Ret(Me(t), Ok(<<>>)))
          \/ Upd(t, Ret(Me(t), Err("Other")))
       /\ UNCHANGED <<files, stdinBuf, stdoutBuf, stdinLock, stdoutLock>>
    \/ /\ InMethod(t, "async_write", "call")
       /\ Me(t).self.tag = "Path"
       /\ LET p == Me(t).self.path
              r == File_create_result(files, p)
          IN  /\ files' = File_create(files, p)
              /\ Upd(t, IF r.ok
                        THEN [Me(t) EXCEPT !.pc = "opened", !.pos = 0]
                        ELSE Ret(Me(t), r))
       /\ UNCHANGED <<stdinBuf, stdoutBuf, stdinLock, stdoutLock>>
    \/ /\ InMethod(t, "async_write", "opened")
       /\ Me(t).pos < Len(Me(t).data)
       /\ \E k \in 1..(Len(Me(t).data) - Me(t).pos) :
             /\ files' = [files EXCEPT ![Me(t).self.path].data =
                    WriteAt(@, Me(t).pos,
                            SubSeq(Me(t).data, Me(t).pos + 1,
                                   Me(t).pos + k))]
             /\ Upd(t, [Me(t) EXCEPT !.pos = @ + k])
       /\ UNCHANGED <<stdinBuf, stdoutBuf, stdinLock, stdoutLock>>
    \/ /\ InMethod(t, "async_write", "opened")
       /\ Upd(t, Deliver(Me(t), IF Me(t).pos = Len(Me(t).data)
                                THEN Ok(<<>>) ELSE Err("Other")))
       /\ UNCHANGED <<files, stdinBuf, stdoutBuf, stdinLock, stdoutLock>>

\* Write::write_all(bytes) on the writer w returned by create()
Emit(w, bytes) ==
    IF w.kind \in {"stdout", "astdout"}
    THEN /\ stdoutBuf' = stdoutBuf \o bytes
         /\ UNCHANGED files
    ELSE /\ files' = [files EXCEPT ![w.path].data = WriteAt(@, w.pos, bytes)]
         /\ UNCHANGED stdoutBuf

\* the caller writes its buffer through the writer it holds
Writer_write(t) ==
    /\ Me(t).tool = "none"
    /\ Me(t).pc = "idle"
    /\ Me(t).wr.kind # "none"
    /\ Me(t).pos = 0
    /\ Me(t).data # <<>>
    /\ Me(t).wr.kind = "astdout" => stdoutLock.owner = 0
    /\ Emit(Me(t).wr, Me(t).data)
    /\ Upd(t, [Me(t) EXCEPT !.pos = Len(Me(t).data),
                            !.wr.pos = @ + Len(Me(t).data)])
    /\ UNCHANGED <<stdinBuf, stdinLock, stdoutLock>>

\* drop of the writer returned by create(): the StdoutLock it holds is
\* released, the file it holds is closed
Writer_drop(t) ==
    /\ Me(t).tool = "none"
    /\ Me(t).pc = "idle"
    /\ Me(t).wr.kind # "none"
    /\ Upd(t, [Me(t) EXCEPT
           !.wr = IF @.kind = "stdout" /\ stdoutLock.depth > 1 THEN @
                  ELSE NoWriter])
    /\ IF Me(t).wr.kind = "stdout" THEN Stdout_unlock(t)
       ELSE UNCHANGED stdoutLock
    /\ UNCHANGED <<files, stdinBuf, stdoutBuf, stdinLock>>

\* ---- the callers --------------------------------------------------------

InputOps == {"open", "read", "read_to_string", "lines"}
OutputOps == {"create", "write", "async_create", "async_write"}

\* the arguments a caller may hold
InputArgs == {Stdin} \cup {InputArg_Path(p) : p \in Paths}
OutputArgs == {Stdout} \cup {OutputArg_Path(p) : p \in Paths}

\* the thread t calls the method op on self; src, dst and out record what
\* the source, the destination and standard output held at the call
Enter(t, op, self) ==
    [Me(t) EXCEPT !.pc = "call", !.op = op, !.self = self, !.pos = 0,
                  !.calls = @ + 1,
                  !.src = IF op \in InputOps \cup AsyncInputOps
                          THEN SourceOf(self) ELSE <<>>,
                  !.dst = IF op \in OutputOps /\ self.tag = "Path"
                          THEN files[self.path] ELSE Missing,
                  !.out = stdoutBuf]

\* a task makes its one call of an asynchronous input method
BeginAsync(t) ==
    /\ Me(t).tool = "none"
    /\ Me(t).pc = "idle"
    /\ Me(t).calls = 0
    /\ \E op \in AsyncInputOps, self \in InputArgs :
          Upd(t, Enter(t, op, self))
    /\ UNCHANGED <<files, stdinBuf, stdoutBuf, stdinLock, stdoutLock>>

\* a thread makes its one call
Begin(t) ==
    /\ Me(t).tool = "none"
    /\ Me(t).pc = "idle"
    /\ Me(t).calls = 0
    /\ \/ \E op \in InputOps, self \in InputArgs : Upd(t, Enter(t, op, self))
       \/ \E op \in OutputOps, self \in OutputArgs :
              Upd(t, Enter(t, op, self))
    /\ UNCHANGED <<files, stdinBuf, stdoutBuf, stdinLock, stdoutLock>>

\* the caller takes the result
Return(t) ==
    /\ Me(t).tool = "none"
    /\ Me(t).pc = "ret"
    /\ Upd(t, [Me(t) EXCEPT !.pc = "idle"])
    /\ UNCHANGED <<files, stdinBuf, stdoutBuf, stdinLock, stdoutLock>>

\* the value-level variables play no part in I/O
ValueIdle ==
    /\ arg = Dash
    /\ kind = "InputArg"
    /\ value = Stdin
    /\ how = "default"
    /\ obs = NoObs
    /\ twin = NoTwin

\* ---- the test programs (tests/bins) -----------------------------------

\* the text of "1\nTo\nTre\nFour\n\n"
ScenarioA ==
    <<"1", LF, "T", "o", LF, "T", "r", "e", LF, "F", "o", "u", "r", LF, LF>>

\* a text with a "\r\n" line ending
CrLfText == <<"a", CR, LF, "a">>

\* what standard input and the input file may hold
Sources == Contents \cup {ScenarioA, CrLfText}

\* how an argument is given on the command line: left out, given as "-",
\* or given as the path of a file
Shapes == {"absent", "hyphen", "path"}

\* #[clap(default_value_t)] infile: InputArg -- a positional that is left
\* out takes InputArg::default().to_string(), parsed like any other value
Parse_infile(shape) ==
    InputArg_from(
        IF shape = "absent"
        THEN Into_PathBuf("String", InputArg_fmt(InputArg_default, FALSE))
        ELSE IF shape = "hyphen" THEN Dash
        ELSE InPath)

\* a faulty default: an output that is left out names the output file
Parse_outfile_file(shape) ==
    OutputArg_from(IF shape = "hyphen" THEN Dash ELSE OutPath)

\* #[clap(short = 'o', long, default_value_t)] outfile: OutputArg
Parse_outfile(shape) ==
    OutputArg_from(
        IF shape = "absent"
        THEN Into_PathBuf("String", OutputArg_fmt(OutputArg_default, FALSE))
        ELSE IF shape = "hyphen" THEN Dash
        ELSE OutPath)

DigitChars == <<"0", "1", "2", "3", "4", "5", "6", "7", "8", "9">>

\* format!("{}", n)
RECURSIVE Digits(_)
Digits(n) ==
    IF n < 10 THEN <<DigitChars[n + 1]>>
    ELSE Digits(n \div 10) \o <<DigitChars[(n % 10) + 1]>>

\* Arguments::parse() of either program
Tool_parse(t) ==
    /\ Me(t).tool = "none"
    /\ Me(t).pc = "idle"
    /\ Me(t).calls = 0
    /\ \E tool \in {"revbytes", "linelen"}, i \in Shapes, o \in Shapes :
          Upd(t, [Me(t) EXCEPT !.tool = tool, !.tpc = "parsed",
                               !.calls = 1,
                               !.infile = Parse_infile(i),
                               !.outfile = Parse_outfile(o),
                               !.tin = i, !.tout = o])
    /\ UNCHANGED <<files, stdinBuf, stdoutBuf, stdinLock, stdoutLock>>

\* the process ends: main's locals are dropped, whatever they hold
Exit(t, status) ==
    /\ Upd(t, [Me(t) EXCEPT !.pc = "done", !.tpc = status,
                            !.rd = NoReader, !.wr = NoWriter])
    /\ stdinLock' = IF Me(t).rd.kind = "stdin" THEN 0 ELSE stdinLock
    /\ IF Me(t).wr.kind = "stdout" THEN Stdout_unlock(t)
       ELSE UNCHANGED stdoutLock

\* tests/bins/revbytes: read the input, reverse it, write the output
Tool_revbytes(t) ==
    /\ Me(t).tool = "revbytes"
    /\ \/ /\ Me(t).tpc = "parsed"
          /\ Upd(t, [Enter(t, "read", Me(t).infile) EXCEPT
                        !.tpc = "read", !.calls = 1])
          /\ UNCHANGED <<files, stdinBuf, stdoutBuf, stdinLock, stdoutLock>>
       \/ /\ Me(t).tpc = "read"
          /\ Me(t).pc = "ret"
          /\ Me(t).res.ok
          /\ Upd(t, [Enter(t, "write", Me(t).outfile) EXCEPT
                        !.tpc = "write", !.calls = 1,
                        !.data = Reverse(Me(t).res.val)])
          /\ UNCHANGED <<files, stdinBuf, stdoutBuf, stdinLock, stdoutLock>>
       \/ /\ Me(t).tpc \in {"read", "write"}
          /\ Me(t).pc = "ret"
          /\ Me(t).tpc = "read" => ~Me(t).res.ok
          /\ Exit(t, IF Me(t).res.ok THEN "ok" ELSE "failed")
          /\ UNCHANGED <<files, stdinBuf, stdoutBuf>>

\* tests/bins/linelen: create the output, then write the length of each
\* line of the input
Tool_linelen(t) ==
    /\ Me(t).tool = "linelen"
    /\ \/ /\ Me(t).tpc = "parsed"
          /\ Upd(t, [Enter(t, "create", Me(t).outfile) EXCEPT
                        !.tpc = "create", !.calls = 1])
          /\ UNCHANGED <<files, stdinBuf, stdoutBuf, stdinLock, stdoutLock>>
       \/ /\ Me(t).tpc = "create"
          /\ Me(t).pc = "ret"
          /\ Me(t).res.ok
          /\ Upd(t, [Enter(t, "lines", Me(t).infile) EXCEPT
                        !.tpc = "lines", !.calls = 1])
          /\ UNCHANGED <<files, stdinBuf, stdoutBuf, stdinLock, stdoutLock>>
       \/ /\ Me(t).tpc = "lines"
          /\ Me(t).pc = "ret"
          /\ Me(t).res.ok
          /\ Upd(t, [Me(t) EXCEPT !.tpc = "loop", !.pc = "idle", !.pos = 0])
          /\ UNCHANGED <<files, stdinBuf, stdoutBuf, stdinLock, stdoutLock>>
       \/ /\ Me(t).tpc \in {"create", "lines"}
          /\ Me(t).pc = "ret"
          /\ ~Me(t).res.ok
          /\ Exit(t, "failed")
          /\ UNCHANGED <<files, stdinBuf, stdoutBuf>>
       \/ /\ Me(t).tpc = "loop"
          /\ Len(Me(t).items) > Me(t).pos
          /\ LET item == Me(t).items[Me(t).pos + 1] IN
             \/ /\ item.kind = "line"
                /\ Emit(Me(t).wr,
                        Digits(Len(Encode(item.text))) \o <<LF>>)
                /\ Upd(t, [Me(t) EXCEPT
                       !.pos = @ + 1,
                       !.wr.pos = @ + Len(Digits(Len(Encode(item.text)))) + 1])
                /\ UNCHANGED <<stdinBuf, stdinLock, stdoutLock>>
             \/ /\ item.kind = "line"
                /\ Exit(t, "failed")
                /\ UNCHANGED <<files, stdinBuf, stdoutBuf>>
             \/ /\ item.kind # "line"
                /\ Exit(t, IF item.kind = "end" THEN "ok" ELSE "failed")
                /\ UNCHANGED <<files, stdinBuf, stdoutBuf>>

\* the environment the process starts in: what standard input holds and
\* what the files hold
Given(d, fsys) == [stdin |-> d, files |-> fsys]

\* one process with one thread, standard input holding d, the input file
\* missing, holding d or its reverse, or unreadable, the output file
\* missing or holding older and longer content; d is also the buffer the
\* thread writes
InitIO ==
    /\ ValueIdle
    /\ \E d \in Sources :
          /\ stdinBuf = d
          /\ \E f \in {Missing, File(d), File(Reverse(d)), Denied(d)},
                g \in {Missing, File(Old)} :
                 files = [p \in Paths |-> IF p = InPath THEN f ELSE g]
          /\ th = [t \in Threads |->
                     [Idle(IF t = 1 THEN 0 ELSE 1) EXCEPT
                         !.data = d, !.given = Given(d, files)]]
    /\ stdoutBuf = <<>>
    /\ stdinLock = 0
    /\ stdoutLock = Unlocked

ThreadStep(t) ==
    \/ Begin(t)
    \/ InputArg_open(t)
    \/ InputArg_read(t)
    \/ InputArg_read_to_string(t)
    \/ InputArg_lines(t)
    \/ Lines_next(t)
    \/ Reader_drop(t)
    \/ OutputArg_create(t)
    \/ OutputArg_write(t)
    \/ OutputArg_async_write(t)
    \/ Writer_write(t)
    \/ Writer_drop(t)
    \/ Return(t)
    \/ Tool_parse(t)
    \/ Tool_revbytes(t)
    \/ Tool_linelen(t)
    \/ BeginAsync(t)
    \/ InputArg_async_open(t)
    \/ InputArg_async_read(t)
    \/ InputArg_async_read_to_string(t)
    \/ InputArg_async_lines(t)
    \/ AsyncLines_next(t)
    \/ OutputArg_async_create(t)
    \/ Cancel(t)

NextIO == \E t \in Threads : ThreadStep(t)

SpecIO == InitIO /\ [][NextIO]_allVars

\* ------------------------------------------------------------------------
\* Properties of the synchronous I/O methods
\* ------------------------------------------------------------------------

\* the content the program t reads: standard input when the input is left
\* out or is "-", the input file otherwise
ToolInput(t) ==
    IF Me(t).tin = "path" THEN Me(t).given.files[InPath].data
    ELSE Me(t).given.stdin

\* the output linelen is expected to print for the content b: the length
\* of each line, each followed by a newline
RECURSIVE LineLengths(_)
LineLengths(b) ==
    IF b = <<>> THEN <<>>
    ELSE LET n == LineEnd(b, 1)
             term == IF b[n] # LF THEN 0
                     ELSE IF n >= 2 /\ b[n - 1] = CR THEN 2 ELSE 1
         IN  Digits(n - term) \o <<LF>> \o LineLengths(Drop(b, n))

\* what the program t is expected to output
ToolOutput(t) ==
    IF Me(t).tool = "revbytes" THEN Reverse(ToolInput(t))
    ELSE LineLengths(ToolInput(t))

\* the program t has run to a successful exit
ToolOk(t) ==
    /\ Me(t).tool # "none"
    /\ Me(t).tpc = "ok"

\* C11: for each of the nine argument shapes (input left out, "-", or a
\* path; output left out, "-o -", or "--outfile path") a program that
\* succeeds has read standard input exactly when the input was left out or
\* "-" and the named file otherwise (left unchanged); with an output path
\* the file holds the complete expected output and standard output
\* nothing; otherwise standard output holds it and no file is created or
\* changed.
C11_EndToEndDispatch ==
    \A t \in Threads : ToolOk(t) =>
        /\ Me(t).infile = (IF Me(t).tin = "path" THEN InputArg_Path(InPath)
                           ELSE Stdin)
        /\ Me(t).outfile = (IF Me(t).tout = "path"
                            THEN OutputArg_Path(OutPath) ELSE Stdout)
        /\ stdinBuf = (IF Me(t).tin = "path" THEN Me(t).given.stdin
                       ELSE <<>>)
        /\ files[InPath] = Me(t).given.files[InPath]
        /\ IF Me(t).tout = "path"
           THEN /\ files[OutPath] = File(ToolOutput(t))
                /\ stdoutBuf = <<>>
           ELSE /\ stdoutBuf = ToolOutput(t)
                /\ files = Me(t).given.files

C11_Witness ==
    /\ ToolOk(1)
    /\ th[1].tool = "revbytes"
    /\ th[1].tin = "absent"
    /\ th[1].tout = "path"
    /\ th[1].given.stdin = <<"a", LF>>
    /\ th[1].given.files[InPath] = File(<<"a", LF>>)
    /\ th[1].given.files[OutPath] = File(Old)
    /\ files[OutPath] = File(<<LF, "a">>)

\* the lines a finished iteration has given, without the end marker
LinesOf(t) == SubSeq(Me(t).items, 1, Len(Me(t).items) - 1)

\* the iteration of t over the lines of its source has reached the end
\* and every line was text
LinesDone(t) ==
    /\ Me(t).op = "lines"
    /\ Me(t).items # <<>>
    /\ Me(t).items[Len(Me(t).items)] = EndItem
    /\ \A i \in 1..(Len(Me(t).items) - 1) : Me(t).items[i].kind = "line"

\* the number of lines of the content b: one per newline, and one more for
\* a last line that has no newline
NumLines(b) ==
    Cardinality({i \in 1..Len(b) : b[i] = LF})
        + (IF b # <<>> /\ b[Len(b)] # LF THEN 1 ELSE 0)

\* the content b without its line terminators ("\n" and "\r\n")
RECURSIVE Unterminated(_)
Unterminated(b) ==
    IF b = <<>> THEN <<>>
    ELSE IF b[1] = LF THEN Unterminated(Tail(b))
    ELSE IF b[1] = CR /\ Len(b) >= 2 /\ b[2] = LF
         THEN Unterminated(Drop(b, 2))
    ELSE <<b[1]>> \o Unterminated(Tail(b))

\* the bytes of the lines ls, one after the other
RECURSIVE Joined(_)
Joined(ls) ==
    IF ls = <<>> THEN <<>>
    ELSE Encode(Head(ls).text) \o Joined(Tail(ls))

\* C12: lines() yields exactly one item per line of the source, in order,
\* each without its terminator, an empty line as the empty string and no
\* extra item after a final newline; "1\nTo\nTre\nFour\n\n" is read as
\* exactly the five lines "1", "To", "Tre", "Four", ""; linelen prints one
\* length per line, the same for standard input and for a path.
C12_LinesOnePerLine ==
    \A t \in Threads :
        /\ LinesDone(t) =>
              /\ Len(LinesOf(t)) = NumLines(Me(t).src)
              /\ \A i \in 1..Len(LinesOf(t)) :
                     \A j \in 1..Len(LinesOf(t)[i].text) :
                         LinesOf(t)[i].text[j] # LF
              /\ Joined(LinesOf(t)) = Unterminated(Me(t).src)
              /\ Me(t).src = ScenarioA =>
                     [i \in 1..Len(LinesOf(t)) |-> LinesOf(t)[i].text]
                         = << <<"1">>, <<"T", "o">>, <<"T", "r", "e">>,
                              <<"F", "o", "u", "r">>, <<>> >>
        /\ (ToolOk(t) /\ Me(t).tool = "linelen") =>
              /\ LinesDone(t)
              /\ Me(t).pos = Len(LinesOf(t))
              /\ (IF Me(t).tout = "path" THEN files[OutPath].data
                  ELSE stdoutBuf) = LineLengths(ToolInput(t))
              /\ ToolInput(t) = ScenarioA =>
                     LineLengths(ToolInput(t))
                         = <<"1", LF, "2", LF, "3", LF, "4", LF, "0", LF>>

C12_Witness ==
    /\ ToolOk(1)
    /\ th[1].tool = "linelen"
    /\ th[1].tin = "hyphen"
    /\ th[1].tout = "absent"
    /\ th[1].given.stdin = ScenarioA
    /\ Len(th[1].items) = 6
    /\ stdoutBuf = <<"1", LF, "2", LF, "3", LF, "4", LF, "0", LF>>

\* the call of method op by t has returned / returned Ok / returned Err
Returned(t, op) ==
    /\ Me(t).op = op
    /\ Me(t).pc = "ret"

ReturnedOk(t, op) ==
    /\ Returned(t, op)
    /\ Me(t).res.ok

ReturnedErr(t, op) ==
    /\ Returned(t, op)
    /\ ~Me(t).res.ok

\* C13: bytes are transferred exactly: read() on a source holding b
\* returns exactly b, write(c) emits exactly c to its destination, and
\* read, reverse, write gives the reverse of b for every combination of
\* source and destination.
C13_ByteExactTransfer ==
    \A t \in Threads :
        /\ ReturnedOk(t, "read") => Me(t).res.val = Me(t).src
        /\ ReturnedOk(t, "write") =>
               IF Me(t).self.tag = "Stdout"
               THEN stdoutBuf = Me(t).out \o Me(t).data
               ELSE files[Me(t).self.path] = File(Me(t).data)
        /\ (ToolOk(t) /\ Me(t).tool = "revbytes") =>
               /\ Me(t).data = Reverse(ToolInput(t))
               /\ (IF Me(t).tout = "path" THEN files[OutPath].data
                   ELSE stdoutBuf) = Reverse(ToolInput(t))

C13_Witness ==
    /\ ToolOk(1)
    /\ th[1].tool = "revbytes"
    /\ th[1].tin = "path"
    /\ th[1].tout = "hyphen"
    /\ th[1].given.stdin = <<"C3", "a">>
    /\ th[1].given.files[InPath] = File(<<"a", "C3">>)
    /\ stdoutBuf = <<"C3", "a">>

\* the files other than p are as they were when the process started
OthersKept(t, p) ==
    \A q \in Paths \ {p} : files[q] = Me(t).given.files[q]

\* C14: after a successful write(data) on a Path the file holds exactly
\* data: it is created if it was absent and nothing of its previous
\* contents is left, even if they were longer; on Stdout the data goes to
\* standard output and no file is created or changed.
C14_WriteReplacesContents ==
    \A t \in Threads : ReturnedOk(t, "write") =>
        IF Me(t).self.tag = "Path"
        THEN /\ files[Me(t).self.path].state = "file"
             /\ files[Me(t).self.path].data = Me(t).data
             /\ Len(files[Me(t).self.path].data) = Len(Me(t).data)
             /\ OthersKept(t, Me(t).self.path)
             /\ stdoutBuf = Me(t).out
        ELSE /\ stdoutBuf = Me(t).out \o Me(t).data
             /\ files = Me(t).given.files

C14_Witness ==
    /\ ReturnedOk(1, "write")
    /\ th[1].tool = "none"
    /\ th[1].self = OutputArg_Path(OutPath)
    /\ th[1].dst = File(Old)
    /\ th[1].data = <<"a">>
    /\ files[OutPath] = File(<<"a">>)

\* C16: create() on a Path creates the file when it is absent and
\* truncates it when it exists, so that right after the call the file
\* exists and is empty; on Stdout it returns the locked standard output
\* and changes no file.
C16_CreateTruncates ==
    \A t \in Threads : ReturnedOk(t, "create") =>
        IF Me(t).self.tag = "Path"
        THEN /\ files[Me(t).self.path] = File(<<>>)
             /\ Me(t).wr = [kind |-> "file", path |-> Me(t).self.path,
                            pos |-> 0]
             /\ OthersKept(t, Me(t).self.path)
             /\ stdoutLock.owner # t
        ELSE /\ Me(t).wr.kind = "stdout"
             /\ stdoutLock.owner = t
             /\ stdoutLock.depth >= 1
             /\ stdoutBuf = Me(t).out
             /\ files = Me(t).given.files

C16_Witness ==
    /\ ReturnedOk(1, "create")
    /\ th[1].tool = "none"
    /\ th[1].self = OutputArg_Path(OutPath)
    /\ th[1].dst = File(Old)
    /\ files[OutPath] = File(<<>>)

\* C17: errors are passed on without a retry: open, read, read_to_string
\* and lines on a Path that is missing or unreadable return the error of
\* opening it and do not create the file; open and lines succeed exactly
\* when the file can be opened, so lines() fails to start exactly when
\* open() fails; create and write on a Path that cannot be created return
\* that error and leave the file as it was; on the stream variant open()
\* and create() never fail.
C17_ErrorsPropagate ==
    \A t \in Threads :
        /\ \A op \in InputOps :
              (Returned(t, op) /\ Me(t).self.tag = "Path") =>
                 /\ files[Me(t).self.path].state = "missing" =>
                        Me(t).res = Err("NotFound")
                 /\ files[Me(t).self.path].state = "denied" =>
                        Me(t).res = Err("PermissionDenied")
                 /\ files[Me(t).self.path]
                        = Me(t).given.files[Me(t).self.path]
                 /\ op \in {"open", "lines"} =>
                        Me(t).res.ok = (files[Me(t).self.path].state = "file")
                 /\ ~Me(t).res.ok => Me(t).rd = NoReader
        /\ \A op \in OutputOps :
              (Returned(t, op) /\ Me(t).self.tag = "Path"
                               /\ Me(t).dst.state = "denied") =>
                 /\ Me(t).res = Err("PermissionDenied")
                 /\ files[Me(t).self.path] = Me(t).dst
                 /\ Me(t).wr = NoWriter
        /\ (Returned(t, "open") /\ Me(t).self = Stdin) => Me(t).res.ok
        /\ (Returned(t, "lines") /\ Me(t).self = Stdin) => Me(t).res.ok
        /\ (Returned(t, "create") /\ Me(t).self = Stdout) => Me(t).res.ok

C17_Witness ==
    /\ Returned(1, "lines")
    /\ th[1].tool = "none"
    /\ th[1].self = InputArg_Path(InPath)
    /\ files[InPath] = Missing
    /\ th[1].res = Err("NotFound")

\* C18: read_to_string() returns the complete text of a source that is
\* valid UTF-8 and an error with no partial string for one that is not;
\* read() on a source with the same bytes is not refused and returns
\* those bytes.
C18_ReadToStringAllOrError ==
    \A t \in Threads :
        /\ ReturnedOk(t, "read_to_string") =>
               /\ IsUtf8(Me(t).src)
               /\ Encode(Me(t).res.val) = Me(t).src
        /\ (Returned(t, "read_to_string") /\ ~IsUtf8(Me(t).src)) =>
               /\ ~Me(t).res.ok
               /\ Me(t).res.val = <<>>
        /\ (Returned(t, "read_to_string") /\ IsUtf8(Me(t).src)) =>
               Me(t).res.err # "InvalidData"
        /\ Returned(t, "read") =>
               /\ Me(t).res.err # "InvalidData"
               /\ Me(t).res.ok => Me(t).res.val = Me(t).src

C18_Witness ==
    /\ Returned(1, "read_to_string")
    /\ th[1].tool = "none"
    /\ th[1].self = Stdin
    /\ th[1].src = <<"a", "C3">>
    /\ th[1].res = Err("InvalidData")
    /\ stdinBuf = <<>>

\* the whole-file writes
WriteOps == {"write", "async_write"}

\* t has called a whole-file write on a Path
WritesFile(t) ==
    /\ Me(t).op \in WriteOps
    /\ Me(t).self.tag = "Path"

\* a is b cut short
IsProperPrefix(a, b) ==
    /\ Len(a) < Len(b)
    /\ a = SubSeq(b, 1, Len(a))

\* C15 (as stated): a whole-file write on a Path is all-or-nothing: after
\* an error the destination is as it was before the call, after a success
\* it holds exactly the given bytes, and at no moment is it truncated or
\* holding a proper prefix of the data.
C15_WriteAllOrNothing ==
    \A t \in Threads : WritesFile(t) =>
        /\ files[Me(t).self.path] \in {Me(t).dst, File(Me(t).data)}
        /\ (Me(t).pc = "ret" /\ ~Me(t).res.ok) =>
               files[Me(t).self.path] = Me(t).dst
        /\ (Me(t).pc = "ret" /\ Me(t).res.ok) =>
               files[Me(t).self.path] = File(Me(t).data)

\* C15 (amended): after a success the file holds exactly the given bytes;
\* after the error of creating the file the destination is as it was;
\* after any later error the previous contents are gone and the file
\* holds a proper prefix of the data, possibly nothing; during the call
\* the file holds the bytes written so far.
C15_WriteOkOrPrefix ==
    \A t \in Threads : WritesFile(t) =>
        /\ (Me(t).pc = "ret" /\ Me(t).res.ok) =>
               files[Me(t).self.path] = File(Me(t).data)
        /\ (Me(t).pc = "ret" /\ Me(t).res = Err("PermissionDenied")) =>
               files[Me(t).self.path] = Me(t).dst
        /\ (Me(t).pc = "ret" /\ Me(t).res = Err("Other")) =>
               /\ files[Me(t).self.path].state = "file"
               /\ IsProperPrefix(files[Me(t).self.path].data, Me(t).data)
        /\ Me(t).pc = "opened" =>
               files[Me(t).self.path]
                   = File(SubSeq(Me(t).data, 1, Me(t).pos))

C15_Witness ==
    /\ WritesFile(1)
    /\ th[1].op = "write"
    /\ th[1].pc = "ret"
    /\ th[1].res = Err("Other")
    /\ th[1].dst = File(Old)
    /\ th[1].data = <<"a", LF>>
    /\ files[th[1].self.path] = File(<<"a">>)

\* ------------------------------------------------------------------------
\* Two threads of one process calling the methods concurrently
\* ------------------------------------------------------------------------

\* the buffer the thread t writes: as long as a content may be, and of
\* bytes no other thread writes
ConcData(t) == [i \in 1..MaxData |-> IF t = 1 THEN "a" ELSE "b"]

\* the text on standard input and in the input file
ConcText == <<"a", LF, "a">>

\* two threads about to make their call; standard input and the input
\* file hold a line of text, the output file is missing
InitConc ==
    /\ ValueIdle
    /\ stdinBuf = ConcText
    /\ files = [p \in Paths |-> IF p = InPath THEN File(ConcText)
                                ELSE Missing]
    /\ th = [t \in Threads |->
                [Idle(0) EXCEPT !.data = ConcData(t),
                                !.given = Given(ConcText, files)]]
    /\ stdoutBuf = <<>>
    /\ stdinLock = 0
    /\ stdoutLock = Unlocked

\* one step of the thread t: it makes its call, the method runs, the
\* caller uses and drops what it was given
ThreadStepConc(t) ==
    \/ Begin(t)
    \/ InputArg_open(t)
    \/ InputArg_read(t)
    \/ InputArg_read_to_string(t)
    \/ InputArg_lines(t)
    \/ Lines_next(t)
    \/ Reader_drop(t)
    \/ OutputArg_create(t)
    \/ OutputArg_write(t)
    \/ OutputArg_async_write(t)
    \/ OutputArg_async_create(t)
    \/ Writer_write(t)
    \/ Writer_drop(t)
    \/ Return(t)

NextConc == \E t \in Threads : ThreadStepConc(t)

SpecConc == InitConc /\ [][NextConc]_allVars

\* the thread t holds the lock of standard input: it is inside read() or
\* read_to_string() on Stdin, or holds a reader or line iterator of Stdin
HoldsStdin(t) ==
    \/ /\ Me(t).op \in {"read", "read_to_string"}
       /\ Me(t).self = Stdin
       /\ Me(t).pc = "locked"
    \/ Me(t).rd.kind = "stdin"

\* the thread t holds the lock of standard output: it is inside write()
\* on Stdout, or holds a writer of Stdout
HoldsStdout(t) ==
    \/ /\ Me(t).op = "write"
       /\ Me(t).self = Stdout
       /\ Me(t).pc = "locked"
    \/ Me(t).wr.kind = "stdout"

\* the bytes of its buffer the thread t has put on standard output
Written(t) == SubSeq(Me(t).data, 1, Me(t).pos)

\* t calls write() on Stdout
WritesStdout(t) ==
    /\ Me(t).op = "write"
    /\ Me(t).self = Stdout

\* C19: concurrent synchronous operations on one standard stream are
\* serialized by the stream lock: at most one thread holds the lock of
\* standard input and at most one that of standard output, a thread that
\* is inside read(), read_to_string() or write() or holds a reader, writer
\* or line iterator of the stream owns the lock, and the bytes of two
\* concurrent write() calls on Stdout are never interleaved: all that one
\* call writes comes before anything the other writes, and the second
\* writes only after the first has returned.
C19_StreamOpsSerialized ==
    /\ \A t, u \in Threads :
          t # u => /\ ~(HoldsStdin(t) /\ HoldsStdin(u))
                   /\ ~(HoldsStdout(t) /\ HoldsStdout(u))
    /\ \A t \in Threads :
          /\ HoldsStdin(t) => stdinLock = t
          /\ HoldsStdout(t) => stdoutLock.owner = t
    /\ \A t, u \in Threads :
          (t # u /\ WritesStdout(t) /\ WritesStdout(u)) =>
              \/ /\ stdoutBuf = Written(t) \o Written(u)
                 /\ Written(u) # <<>> => Me(t).pc \in {"ret", "idle"}
              \/ /\ stdoutBuf = Written(u) \o Written(t)
                 /\ Written(t) # <<>> => Me(u).pc \in {"ret", "idle"}

C19_Witness ==
    /\ WritesStdout(1)
    /\ WritesStdout(2)
    /\ th[1].pc = "ret"
    /\ th[1].res.ok
    /\ th[2].pc = "locked"
    /\ Written(2) # <<>>
    /\ Written(2) # th[2].data
    /\ stdoutBuf = ConcData(1) \o Written(2)

\* the threads keep running: a method that can take its next step takes
\* it, and a caller that holds a reader, an iterator or a writer goes on
\* to use it and to drop it
SpecConcFair ==
    /\ SpecConc
    /\ \A t \in Threads : WF_allVars(ThreadStepConc(t))

\* the thread t has called a method that locks a standard stream and has
\* not got the lock yet
Waiting(t) ==
    /\ Me(t).pc = "call"
    /\ \/ /\ Me(t).op \in InputOps
          /\ Me(t).self = Stdin
       \/ /\ Me(t).op \in {"create", "write"}
          /\ Me(t).self = Stdout

\* the locks are owned by the threads that show a reason to own them
LocksAccounted ==
    \A t \in Threads :
        /\ Me(t).rd.kind = "stdin" => stdinLock = t
        /\ Me(t).wr.kind = "stdout" => stdoutLock.owner = t
        /\ stdinLock = t => HoldsStdin(t)
        /\ stdoutLock.owner = t => HoldsStdout(t)
        /\ (Me(t).pc = "ret" /\ Me(t).op \in {"read", "read_to_string"})
               => stdinLock # t
        /\ (Me(t).pc = "ret" /\ Me(t).op = "write") => stdoutLock.owner # t

\* C20: lines() and open() on Stdin hold the lock of standard input for
\* as long as the returned object lives and release it when it is dropped,
\* read to the end or not; read(), read_to_string() and write() on a
\* standard stream have released the lock when they return, with Ok or
\* with an error; and a thread that waits for the lock of a stream
\* eventually gets it, the holders dropping and returning.
C20_LockReleased ==
    /\ []LocksAccounted
    /\ \A t \in Threads : Waiting(t) ~> ~Waiting(t)

C20_Witness ==
    /\ th[1].op = "lines"
    /\ th[1].self = Stdin
    /\ th[1].items = <<[kind |-> "line", text |-> <<"a">>]>>
    /\ th[1].rd = NoReader
    /\ th[2].op = "read"
    /\ th[2].self = Stdin
    /\ th[2].pc = "ret"
    /\ th[2].res = Ok(<<"a">>)
    /\ stdinLock = 0

\* ---- C23: the asynchronous methods and their synchronous counterparts ---

\* the synchronous method an asynchronous one stands for
SyncOf(op) ==
    CASE op = "async_open" -> "open"
      [] op = "async_read" -> "read"
      [] op = "async_read_to_string" -> "read_to_string"
      [] op = "async_lines" -> "lines"
      [] op = "async_create" -> "create"
      [] op = "async_write" -> "write"
      [] OTHER -> op

\* every item of an iteration over the content b, in order
RECURSIVE AllLines(_)
AllLines(b) ==
    IF b = <<>> THEN <<>>
    ELSE <<LineItem(b)>> \o AllLines(Drop(b, LineEnd(b, 1)))

IsPrefixOf(s, w) ==
    /\ Len(s) <= Len(w)
    /\ s = SubSeq(w, 1, Len(s))

\* the call of t has returned what the method named base returns for the
\* argument, the contents and the failure of the primitive at hand, and
\* the files and the bytes of the standard streams are as that method
\* leaves them
Mirrored(t, base) ==
    LET r == Me(t)
        p == r.self.path
        isPath == r.self.tag = "Path"
    IN  CASE base \in {"read", "read_to_string"} ->
               /\ files = r.given.files
               /\ stdoutBuf = r.out
               /\ IF isPath /\ ~File_open(files, p).ok
                  THEN r.res = File_open(files, p)
                  ELSE \/ /\ r.res = Err("Other")
                          /\ ~isPath =>
                                 \E k \in 0..Len(r.src) :
                                     stdinBuf = Drop(r.src, k)
                       \/ /\ r.res = IF base = "read" THEN AsBytes(r.src)
                                      ELSE AsString(r.src)
                          /\ ~isPath => stdinBuf = <<>>
          [] base \in {"open", "lines"} ->
               /\ files = r.given.files
               /\ stdoutBuf = r.out
               /\ ~isPath => stdinBuf = r.src
               /\ r.res = IF isPath THEN File_open(files, p) ELSE Ok(<<>>)
               /\ r.res.ok = (r.rd.kind # "none")
               /\ r.res.ok => r.rd.lines = (base = "lines")
               /\ r.items = <<>>
          [] base = "create" ->
               /\ stdoutBuf = r.out
               /\ IF isPath
                  THEN /\ r.res = File_create_result(r.given.files, p)
                       /\ files = File_create(r.given.files, p)
                  ELSE /\ r.res = Ok(<<>>)
                       /\ files = r.given.files
               /\ r.res.ok = (r.wr.kind # "none")
          [] base = "write" ->
               IF isPath
               THEN /\ stdoutBuf = r.out
                    /\ OthersKept(t, p)
                    /\ IF ~File_create_result(r.given.files, p).ok
                       THEN /\ r.res = File_create_result(r.given.files, p)
                            /\ files = r.given.files
                       ELSE \/ /\ r.res = Ok(<<>>)
                               /\ files[p] = File(r.data)
                            \/ /\ r.res = Err("Other")
                               /\ files[p].state = "file"
                               /\ IsProperPrefix(files[p].data, r.data)
               ELSE /\ files = r.given.files
                    /\ \/ /\ r.res = Ok(<<>>)
                          /\ stdoutBuf = r.out \o r.data
                       \/ /\ r.res = Err("Other")
                          /\ \E k \in 0..Len(r.data) :
                                 stdoutBuf = r.out \o SubSeq(r.data, 1, k)
          [] OTHER -> FALSE

HoldsHandle(t) ==
    \/ Me(t).rd.kind = "file"
    \/ Me(t).wr.kind = "file"
    \/ Me(t).op = "async_write" /\ Me(t).pc = "opened"

\* what was written before the task of t was dropped is still there
WrittenKept(t) ==
    /\ IsPrefixOf(Me(t).kept.out, stdoutBuf)
    /\ (Me(t).op = "async_write" /\ Me(t).self.tag = "Path") =>
           IsPrefixOf(Me(t).kept.dst.data, files[Me(t).self.path].data)

\* C25 as stated: once the task that awaits an asynchronous method is
\* dropped, at any point, no lock of a standard stream is held and no
\* file is open for it, and what was written before is unchanged.
C25_CancelReleasesAll ==
    \A t \in Threads : Me(t).gone =>
        /\ stdinLock # t
        /\ stdoutLock.owner # t
        /\ ~HoldsHandle(t)
        /\ WrittenKept(t)

\* C25, amended: a task dropped while no blocking operation is under way
\* holds nothing from then on; a blocking operation that is under way
\* (a read of standard input, a whole-file write) is not stopped: it
\* keeps the lock of standard input or the file until it ends, and only
\* then is everything released; the bytes written before the drop stay
\* where they are, with what the operation still writes after them.
C25_CancelReleasesAtEnd ==
    \A t \in Threads : Me(t).gone =>
        /\ Me(t).pc \in {"cancelled", "busy", "opened", "filling"}
        /\ Me(t).pc = "cancelled" =>
               /\ stdinLock # t
               /\ stdoutLock.owner # t
               /\ ~HoldsHandle(t)
               /\ Me(t).rd = NoReader
               /\ Me(t).wr = NoWriter
        /\ stdinLock = t =>
               /\ Me(t).pc \in {"busy", "filling"}
               /\ Me(t).self.tag = "Stdin"
        /\ stdoutLock.owner # t
        /\ WrittenKept(t)

C25_Witness ==
    /\ th[1].gone
    /\ th[1].op = "async_read"
    /\ th[1].pc = "busy"
    /\ th[1].acc = <<"a">>
    /\ stdinLock = 1

\* ---- C24: an asynchronous line stream and the lock of standard input ----

\* one step of a thread or task: a synchronous call as before, or the
\* call of an asynchronous input method and the use of its line stream
TaskStep(t) ==
    \/ ThreadStepConc(t)
    \/ BeginAsync(t)
    \/ InputArg_async_open(t)
    \/ InputArg_async_read(t)
    \/ InputArg_async_read_to_string(t)
    \/ InputArg_async_lines(t)
    \/ AsyncLines_next(t)

NextTasks == \E t \in Threads : TaskStep(t)

SpecTasks == InitConc /\ [][NextTasks]_allVars

\* t has a line stream of async_lines() over standard input
AsyncStreamAlive(t) ==
    /\ Me(t).rd.kind = "astdin"
    /\ Me(t).rd.lines

\* C24 as stated: as long as a task has an asynchronous line stream over
\* standard input, from async_lines() to the drop of the stream, it holds
\* the lock of standard input.
C24_AsyncLinesHoldLock ==
    \A t \in Threads : AsyncStreamAlive(t) => stdinLock = t

\* C24, amended: an asynchronous line stream over standard input holds
\* the lock of standard input only while one of its reads is under way;
\* between two reads the lock is free, so another thread or task can
\* consume standard input while the stream is alive; the iterator of
\* lines() holds the lock as long as it lives.
C24_AsyncLinesLockPerRead ==
    \A t \in Threads :
        /\ AsyncStreamAlive(t) => (stdinLock = t <=> Me(t).pc = "filling")
        /\ (Me(t).rd.kind = "stdin" /\ Me(t).rd.lines) => stdinLock = t

C24_Witness ==
    /\ AsyncStreamAlive(1)
    /\ th[1].pc = "idle"
    /\ th[1].items = <<[kind |-> "line", text |-> <<"a">>]>>
    /\ ReturnedOk(2, "read")
    /\ th[2].self = Stdin
    /\ th[2].res.val = <<"a">>
    /\ stdinLock = 0

\* ---- C28: operations on a Path are not coordinated -----------------------

\* t calls write() or async_write() on the path p
WritesPath(t, p) ==
    /\ Me(t).op \in {"write", "async_write"}
    /\ Me(t).self = OutputArg_Path(p)

\* C28: an operation on a Path takes no lock of a standard stream, and
\* nothing orders two concurrent write() calls on one path: each creates
\* or truncates the file and writes its bytes at its own position
\* whatever the other does, so that when both have returned Ok the file
\* has the length of the data and each of its bytes is the byte either
\* call wrote there, the whole being possibly the data of neither.
C28_PathOpsUncoordinated ==
    /\ \A t \in Threads :
          (Me(t).op # "none" /\ Me(t).self.tag = "Path") =>
              /\ stdinLock # t
              /\ stdoutLock.owner # t
              /\ ~HoldsStdin(t)
              /\ ~HoldsStdout(t)
    /\ \A p \in Paths :
          (\A t \in Threads : WritesPath(t, p) /\ Me(t).pc \in {"ret", "idle"}
                                   /\ Me(t).res.ok) =>
              /\ files[p].state = "file"
              /\ Len(files[p].data) = MaxData
              /\ \A i \in 1..MaxData :
                     \E t \in Threads : files[p].data[i] = Me(t).data[i]

C28_Witness ==
    /\ \A t \in Threads : WritesPath(t, OutPath) /\ ReturnedOk(t, Me(t).op)
    /\ files[OutPath].state = "file"
    /\ \A t \in Threads : files[OutPath].data # Me(t).data

\* ---- C29: values made by from_arg are canonical --------------------------

\* from_arg / deserialize of value's type
FromArgOf(p) ==
    IF kind = "InputArg" THEN InputArg_from_arg(p) ELSE OutputArg_from_arg(p)

DeserializeOf(s) ==
    IF kind = "InputArg" THEN InputArg_deserialize(s)
    ELSE OutputArg_deserialize(s)

\* C29: from_arg never gives a Path variant whose path equals "-"; a value
\* given by from_arg is what from_arg gives for its conversion to
\* OsString, and, when its path is text, what deserialization gives for
\* its serialized string.
C29_FromArgCanonical ==
    how = "from_arg" =>
        /\ IsPath => (~PathEq(value.path, Dash) /\ value.path # Dash)
        /\ obs.op = "into_OsString" => FromArgOf(obs.res) = value
        /\ (obs.op = "serialize" /\ (IsStd \/ IsUtf8(value.path))) =>
               /\ obs.res.ok
               /\ DeserializeOf(obs.res.val) = value

C29_Witness ==
    /\ how = "from_arg"
    /\ kind = "InputArg"
    /\ arg = <<Dot, Slash, Hyphen>>
    /\ value = InputArg_Path(arg)
    /\ obs.op = "into_OsString"
    /\ obs.res = arg
    /\ InputArg_from_arg(obs.res) = value

\* ---- one thread that calls again -----------------------------------------

\* the calls the thread makes, one after the other or one inside the
\* life of what an earlier one returned
MaxCalls == 2

\* the methods of a later call
AgainOps == InputOps \cup {"create", "write"}

\* after a call has returned the thread calls again, with the reader or
\* writer of the earlier call dropped or still alive; it keeps one reader
\* and one writer at a time, but for the guards of one standard stream
BeginAgain(t) ==
    /\ Me(t).tool = "none"
    /\ Me(t).pc = "idle"
    /\ Me(t).calls >= 1
    /\ Me(t).calls < MaxCalls
    /\ \E op \in AgainOps, self \in InputArgs \cup OutputArgs :
          /\ self \in IF op \in InputOps THEN InputArgs ELSE OutputArgs
          /\ op \in {"open", "lines"} =>
                 \/ Me(t).rd.kind = "none"
                 \/ Me(t).rd.kind = "stdin" /\ self = Stdin
          /\ op \in InputOps => Me(t).rd.kind \in {"none", "stdin"}
          /\ op = "create" =>
                 \/ Me(t).wr.kind = "none"
                 \/ Me(t).wr.kind = "stdout" /\ self = Stdout
          /\ Upd(t, [Enter(t, op, self) EXCEPT
                 !.items = IF op \in InputOps THEN <<>> ELSE @])
    /\ UNCHANGED <<files, stdinBuf, stdoutBuf, stdinLock, stdoutLock>>

\* the thread waits for the lock of standard input that it holds itself:
\* io::stdin().lock() inside open(), read(), read_to_string() or lines()
\* on Stdin, called while a StdinLock of this thread is alive
SelfBlocked(t) ==
    /\ Me(t).pc = "call"
    /\ Me(t).op \in InputOps
    /\ Me(t).self = Stdin
    /\ stdinLock = t

\* a faulty lock of standard input: the thread that holds it passes
Stdin_relock_pass(t) ==
    /\ SelfBlocked(t)
    /\ Upd(t, Ret(Me(t), Ok(<<>>)))
    /\ UNCHANGED <<files, stdinBuf, stdoutBuf, stdinLock, stdoutLock>>

\* Mutex::lock() by the thread that holds the Mutex "might panic or
\* deadlock": the thread waits for ever (no step), or it panics and the
\* unwinding drops the guard it held
Stdin_relock(t) ==
    /\ SelfBlocked(t)
    /\ Upd(t, [Me(t) EXCEPT !.pc = "panicked", !.rd = NoReader])
    /\ Stdin_unlock(t)
    /\ UNCHANGED <<files, stdinBuf, stdoutBuf, stdoutLock>>

\* the input file: text, missing, a directory, or bytes that are not text
NestFiles == {File(ConcText), Missing, Dir, File(<<"C3", LF, "a">>)}

InitNest ==
    /\ ValueIdle
    /\ stdinBuf = ConcText
    /\ \E f \in NestFiles, g \in {Missing, File(Old)} :
          files = [p \in Paths |-> IF p = InPath THEN f ELSE g]
    /\ th = [t \in Threads |->
                [Idle(IF t = 1 THEN 0 ELSE MaxCalls) EXCEPT
                    !.data = ConcData(t),
                    !.given = Given(ConcText, files)]]
    /\ stdoutBuf = <<>>
    /\ stdinLock = 0
    /\ stdoutLock = Unlocked

ThreadStepNest(t) ==
    \/ ThreadStepConc(t)
    \/ BeginAgain(t)
    \/ Stdin_relock(t)

NextNest == \E t \in Threads : ThreadStepNest(t)

SpecNest == InitNest /\ [][NextNest]_allVars

\* ---- C22: reading changes no file ----------------------------------------

\* a step of a reading method of t, or of the use or drop of the reader
\* or line iterator it returned
InputStep(t) ==
    /\ th'[t] # th[t]
    /\ th'[t].op \in InputOps
    /\ th'[t].wr = th[t].wr

\* C22: no step of open(), read(), read_to_string() or lines(), of an
\* iteration or of the drop of a reader creates, truncates or writes a
\* file, whether the call succeeds or fails: after any sequence of them
\* every file is as it was.
C22_ReadingLeavesFiles ==
    [][\A t \in Threads : InputStep(t) => files' = files]_allVars

C22_Witness ==
    /\ th[1].calls = MaxCalls
    /\ ReturnedErr(1, "read_to_string")
    /\ th[1].self = InputArg_Path(InPath)
    /\ th[1].res = Err("InvalidData")
    /\ th[1].items = <<>>
    /\ files = th[1].given.files
    /\ files[InPath] = File(<<"C3", LF, "a">>)

\* ---- C26: the iteration of lines() ---------------------------------------

\* t iterates over what its last call, lines(), returned, and the file
\* it reads has not been written since
Iterating(t) ==
    /\ Me(t).op = "lines"
    /\ Me(t).pc = "idle"
    /\ Me(t).rd.kind \in {"stdin", "file"}
    /\ Me(t).rd.lines
    /\ Me(t).rd.kind = "file" => files[Me(t).rd.path].data = Me(t).src

\* the end is reported at most once and nothing comes after it
EndIsLast(items) ==
    \A i \in 1..Len(items) : items[i] = EndItem => i = Len(items)

\* C26 as stated: the iteration is finite and one-pass for every source:
\* each item before the end takes at least one byte of the source, which
\* is never read twice, so there are at most as many items as bytes
\* before the end is reported, and nothing comes after the end.
C26_LinesFiniteOnePass ==
    \A t \in Threads : Iterating(t) =>
        /\ Len(Me(t).items) <= Len(Me(t).src) + 1
        /\ EndIsLast(Me(t).items)

\* C26, amended: over a source whose reads succeed the iteration gives
\* the lines of the source in order, each once, then the end and nothing
\* more, and a new lines() call starts again from the first byte; over a
\* source whose reads fail (a directory) every item is the error of the
\* read, given again at each step, and the end is never reported.
C26_LinesOnePassUnlessReadFails ==
    \A t \in Threads :
        /\ Iterating(t) =>
               IF ReadFails(Me(t).rd)
               THEN \A i \in 1..Len(Me(t).items) :
                        Me(t).items[i].kind = "err"
               ELSE /\ IsPrefixOf(Me(t).items,
                                  AllLines(Me(t).src) \o <<EndItem>>)
                    /\ EndIsLast(Me(t).items)
                    /\ Len(Me(t).items) <= Len(Me(t).src) + 1
                    /\ Me(t).rd.kind = "file" =>
                           Me(t).rd.pos <= Len(Me(t).src)
        /\ ReturnedOk(t, "lines") =>
               /\ Me(t).items = <<>>
               /\ Me(t).rd.lines
               /\ Me(t).rd.pos = 0

C26_Witness ==
    /\ Iterating(1)
    /\ ReadFails(th[1].rd)
    /\ th[1].src = <<>>
    /\ th[1].items = <<ErrItem, ErrItem>>

\* ---- C27: a call inside the life of a guard of the same stream ----------

\* t holds a writer of Stdout and is inside create() or write() on Stdout
NestedOut(t) ==
    /\ Me(t).pc \in {"call", "locked"}
    /\ Me(t).op \in {"create", "write"}
    /\ Me(t).self = Stdout
    /\ Me(t).wr.kind = "stdout"

\* C27 as stated: a call on a standard stream made by the thread that
\* holds a reader, line iterator or writer of that stream completes: the
\* thread never waits for a lock it holds itself, and never panics.
C27_NestedCallsComplete ==
    \A t \in Threads :
        /\ ~SelfBlocked(t)
        /\ Me(t).pc # "panicked"

\* C27, amended: create() and write() on Stdout called by the thread that
\* holds a writer of Stdout are never blocked, the lock of standard
\* output being reentrant; open(), read(), read_to_string() and lines()
\* on Stdin called by the thread that holds a reader or line iterator of
\* Stdin never complete: the method cannot take a step, and the thread
\* waits for its own lock for ever, or panics.
C27_NestedStdoutOnly ==
    /\ [](\A t \in Threads :
              /\ NestedOut(t) =>
                     /\ stdoutLock.owner = t
                     /\ ENABLED (OutputArg_create(t) \/ OutputArg_write(t))
              /\ SelfBlocked(t) =>
                     ~ENABLED (\/ InputArg_open(t)
                               \/ InputArg_read(t)
                               \/ InputArg_read_to_string(t)
                               \/ InputArg_lines(t))
              /\ Me(t).pc = "panicked" =>
                     (Me(t).op \in InputOps /\ Me(t).self = Stdin))
    /\ [][\A t \in Threads :
              SelfBlocked(t) => th'[t].pc \in {"call", "panicked"}]_allVars

C27_Witness ==
    /\ th[1].pc = "panicked"
    /\ th[1].op = "read_to_string"
    /\ th[1].self = Stdin
    /\ th[1].calls = 2
    /\ stdinBuf = ConcText

\* ---- a value from its construction to its use ----------------------------

\* the tokens the program is given: "-" and the names of the two files
LifeTokens == {Dash, InPath, OutPath}

\* let twin = value.clone()
TakeClone ==
    /\ twin' = value
    /\ UNCHANGED <<arg, kind, value, how, obs>>
    /\ UNCHANGED ioVars

\* a faulty path_mut: the clone shares the path of the value
SetPath_shared ==
    \E p \in LifeTokens :
        /\ value.tag = "Path"
        /\ value' = [value EXCEPT !.path = p]
        /\ twin' = IF twin = NoTwin THEN twin ELSE value'
        /\ how' = "path_mut"
        /\ obs' = NoObs
        /\ UNCHANGED <<arg, kind>>
        /\ UNCHANGED ioVars

\* if let Some(p) = value.path_mut() { *p = PathBuf::from(..) }: the
\* stream variant gives None and nothing is set
SetPath ==
    \E p \in LifeTokens :
        /\ value.tag = "Path"
        /\ value' = [value EXCEPT !.path = p]
        /\ how' = "path_mut"
        /\ obs' = NoObs
        /\ UNCHANGED <<arg, kind, twin>>
        /\ UNCHANGED ioVars

\* the methods of value's type
MethodsOf(k) ==
    IF k = "InputArg" THEN InputOps \cup AsyncInputOps ELSE OutputOps

\* the thread calls an I/O method on the value
BeginLife(t) ==
    /\ Me(t).tool = "none"
    /\ Me(t).pc = "idle"
    /\ Me(t).calls = 0
    /\ obs = NoObs
    /\ value.tag = "Path" => value.path \in Paths
    /\ \E op \in MethodsOf(kind) : Upd(t, Enter(t, op, value))
    /\ UNCHANGED <<files, stdinBuf, stdoutBuf, stdinLock, stdoutLock>>

\* a step of the method called, or of the use of what it returned
LifeStep(t) ==
    \/ InputArg_open(t)
    \/ InputArg_read(t)
    \/ InputArg_read_to_string(t)
    \/ InputArg_lines(t)
    \/ Lines_next(t)
    \/ Reader_drop(t)
    \/ InputArg_async_open(t)
    \/ InputArg_async_read(t)
    \/ InputArg_async_read_to_string(t)
    \/ InputArg_async_lines(t)
    \/ AsyncLines_next(t)
    \/ OutputArg_create(t)
    \/ OutputArg_write(t)
    \/ OutputArg_async_create(t)
    \/ OutputArg_async_write(t)
    \/ Writer_write(t)
    \/ Writer_drop(t)
    \/ Return(t)

\* the program is given a token, the input file is missing or holds
\* text, the output file is missing or holds older content
InitLife ==
    /\ arg \in LifeTokens
    /\ \/ kind = "InputArg" /\ value = InputArg_default
       \/ kind = "OutputArg" /\ value = OutputArg_default
    /\ how = "default"
    /\ obs = NoObs
    /\ twin = NoTwin
    /\ stdinBuf = ConcText
    /\ \E f \in {Missing, File(ConcText)}, g \in {Missing, File(Old)} :
          files = [p \in Paths |-> IF p = InPath THEN f ELSE g]
    /\ th = [t \in Threads |->
                [Idle(IF t = 1 THEN 0 ELSE 1) EXCEPT
                    !.data = ConcData(t),
                    !.given = Given(ConcText, files)]]
    /\ stdoutBuf = <<>>
    /\ stdinLock = 0
    /\ stdoutLock = Unlocked

\* the value is built, inspected, cloned and changed until a thread
\* calls one I/O method on it
NextLife ==
    \/ /\ th[1].calls = 0
       /\ Next
    \/ /\ th[1].calls = 0
       /\ TakeClone
    \/ /\ th[1].calls = 0
       /\ SetPath
    \/ \E t \in Threads : BeginLife(t)
    \/ \E t \in Threads : LifeStep(t)

SpecLife == InitLife /\ [][NextLife]_allVars

\* ---- C21: construction touches no file -----------------------------------

\* a step that builds a new value or changes the one there is
ValueStep ==
    \/ value' # value
    \/ how' # how
    \/ kind' # kind

\* C21: building a value (from_arg, From, default, deserialization)
\* opens, creates, truncates and checks nothing: the step changes no file
\* and the value it gives does not depend on what the path names; as
\* long as no I/O method was called every file is as it was, so an
\* OutputArg that is never used leaves no file behind; a file changes only
\* inside an I/O method or through the writer one returned.
C21_ConstructionTouchesNothing ==
    /\ [](th[1].calls = 0 => files = th[1].given.files)
    /\ [](how \in {"from_arg", "from"} => value = FromArgOf(arg))
    /\ [][ValueStep => UNCHANGED ioVars]_allVars
    /\ [][files' # files =>
              \E t \in Threads : \/ Me(t).pc \notin {"idle", "ret"}
                                 \/ Me(t).wr.kind = "file"]_allVars

C21_Witness ==
    /\ how = "from_arg"
    /\ value = InputArg_Path(InPath)
    /\ th[1].given.files[InPath] = Missing
    /\ files = th[1].given.files
    /\ Returned(1, "open")
    /\ th[1].res = Err("NotFound")

\* ---- C30: the variant of a value is fixed --------------------------------

\* the step leaves the value as it is
ValueKept == value' = value

\* the step replaces the value by a newly built one
Constructed ==
    /\ how' # how \/ kind' # kind
    /\ how' # "path_mut"

\* the step sets the path of a Path variant through path_mut()
PathSet ==
    /\ how' = "path_mut"
    /\ obs' = NoObs
    /\ th' = th
    /\ value.tag = "Path"
    /\ value'.tag = "Path"
    /\ twin' = twin

\* C30: the I/O methods, Display, path_ref and clone leave the value as
\* it is, also when they fail; the only change of an existing value is
\* that of the path of a Path variant through path_mut(), which keeps
\* the variant (also for the path "-": is_path() holds, is_stdin() does
\* not) and leaves a clone taken before as it was.
C30_VariantFixed ==
    /\ [][ValueKept \/ Constructed \/ PathSet]_allVars
    /\ [](how = "path_mut" =>
              /\ IsPath
              /\ obs.op = "classify" =>
                     (obs.res.is_path /\ ~obs.res.is_std))

C30_Witness ==
    /\ how = "path_mut"
    /\ value = InputArg_Path(Dash)
    /\ twin = InputArg_Path(InPath)
    /\ obs.op = "classify"
    /\ obs.res.is_path

====
